---- MODULE Spec2Model ----
(***************************************************************************)
(* A model of pandas-bigquery: the schema reconciler of tables.py, the     *)
(* retry wrapper, the strict-mode guard and the upload orchestration of    *)
(* bigquery.py, and the job submission, polling and pagination of jobs.py. *)
(*                                                                         *)
(* The module holds several specifications over one set of variables.      *)
(* Each specification drives one layer of the library; the variables of    *)
(* the other layers stay at their idle values.                             *)
(*   SpecSchema     Tables.schema_is_subset / Tables.schema_matches        *)
(*   SpecRetry      Bigquery.run_with_retry                                *)
(*   SpecQuery      Jobs.query, request by request, against a free remote  *)
(*   FairSpecQuery  Jobs.query called with a timeout, with a clock that    *)
(*                  runs and a program that takes its next step            *)
(*   SpecClient     the query entry points of Bigquery, BigqueryJupyter    *)
(*                  and Jobs, each Jobs call taken as one step             *)
(*   SpecUpload     Bigquery.upload against a remote table store           *)
(*   SpecCopy       Jobs.copy, request by request, against a remote job    *)
(*   SpecAsync      Jobs.query_async, as its users and Bigquery call it    *)
(*   SpecCache      two calls of BigqueryJupyter.query, one after the      *)
(*                  other, over one local result cache                     *)
(*   SpecErrors     GbqConnector.process_insert_errors, error by error     *)
(*   SpecExists     Tables.exists and Datasets.exists, by the HTTP answer  *)
(*   SpecSubmit     the submission of a query job by Jobs.query and by     *)
(*                  Jobs.query_async, over richer overlays                 *)
(*   SpecBlocking   a call of Jobs.query or of Jobs.copy, with the HTTP    *)
(*                  errors of the remote counted                           *)
(*   SpecDelete     Tables.delete and Datasets.delete, by the HTTP answers *)
(*   SpecInsertAll  Tabledata.insert_all, one row of the dataframe a step  *)
(***************************************************************************)
EXTENDS Integers, Sequences, FiniteSets, TLC

VARIABLES
    \* ---- schema reconciler (tables.py) ----
    local_schema,     \* the 'fields' of the schema passed in by the caller
    remote_schema,    \* the 'fields' of the remote table, as get_schema returns them
    subset_result,    \* what schema_is_subset returned: <<>> before the call, then <<bool>>
    matches_result,   \* what schema_matches returned:   <<>> before the call, then <<bool>>
    \* ---- Bigquery.run_with_retry (bigquery.py) ----
    max_tries,        \* the max_tries argument
    retry_i,          \* the loop variable i
    retry_pc,         \* "loop", "returned" or "raised"
    op_history,       \* what each invocation of func did, in order
    retry_result,     \* <<>> while running; the returned value or the raised exception
    \* ---- Jobs.query, step by step (jobs.py) ----
    job_pc,           \* "idle", "call", "poll", "polling", "page", "returned", "raised"
    job_query,        \* the query argument: <<>> for None, else <<text>>
    job_overlay,      \* kwargs.get('configuration'): <<>> for None, else <<dict>>
    job_config,       \* job_config['query'] after the overlay is merged in
    query_reply,      \* the last response received
    total_rows,
    result_pages,
    seen_page_tokens,
    current_row,
    job_schema,       \* the schema captured; schemas are named by the response that carried them
    now,              \* milliseconds elapsed since _start_timer, while the poll loop runs
    polls,            \* status polls issued (counted up to MaxPolls)
    requests,         \* the jobs.insert and the result-page requests issued, in order
    served,           \* the responses received from the first one reporting jobComplete on
    job_outcome,      \* <<>> while running; <<"return">> or <<exception, message>>
    \* ---- the query entry points (bigquery.py, bigquery_jupyter.py, jobs.py) ----
    cl_pc,            \* "idle", "call", "checked", "jobs", "returned", "raised"
    cl_args,          \* the call as the caller made it
    cl_call,          \* the method now running and its arguments
    cl_config,        \* the configuration handed to the Jobs method: <<>> for None, else <<dict>>
    cl_cache,         \* the local result cache: cache key -> stored dataframe
    cl_log,           \* cache lookups and job submissions, in order
    cl_outcome,       \* <<>> while running; <<"return", value>> or <<exception, message>>
    \* ---- Bigquery.upload and the remote table store (bigquery.py, tables.py, tabledata.py) ----
    up_pc,            \* where upload stands
    up_args,          \* the call: the instance's class, the dataframe, destination_table, if_exists, chunksize
    up_tables,        \* the remote tables: table id -> [schema, partitioned, rows, buffer]
    up_dataset,       \* whether the remote dataset exists
    up_before,        \* up_tables as it was when upload was called
    up_cache,         \* the cached result of the row-count query: <<>> or <<num_rows>>
    up_partition_exists,
    up_target,        \* the table id insert_all is called with
    up_sent,          \* the dataframe rows insert_all has sent so far
    up_log,           \* the requests issued, in order
    up_outcome,       \* <<>> while running; <<"return">> or <<exception>>
    \* ---- Jobs.copy, step by step (jobs.py) ----
    copy_pc,          \* "idle", "call", "loop", "returned", "raised"
    copy_overlay,     \* kwargs.get('configuration'): <<>> for None, else <<dict>>
    job_reply,        \* the last job resource received: <<>> before any, else <<resource>>
    job_state,        \* the status of the job at the remote: [state, errorResult]
    copy_requests,    \* the jobs.insert and jobs.get requests issued, in order
    copy_outcome,     \* <<>> while running; <<"return">> or <<exception, message>>
    \* ---- GbqConnector.process_insert_errors (gbqconnector.py) ----
    verbose,          \* self.verbose
    insert_errors,    \* the insertErrors of the response
    err_pc,           \* "idle", "loop", "returned", "raised"
    err_row,          \* the position of the outer loop in insert_errors
    err_error,        \* the position of the inner loop in the row's errors
    printed,          \* what _print has written, in order
    err_outcome,      \* <<>> while running; <<"return">> or <<exception, message>>
    \* ---- Tables.exists and Datasets.exists (tables.py, datasets.py) ----
    rs_pc,            \* "idle", "call", "answered", "returned", "raised"
    rs_call,          \* the call: the class, the dataset id, the table id
    rs_reply,         \* the answer of the remote get: <<>> before it, else <<[status, errors]>>
    rs_requests,      \* the requests issued, in order
    rs_outcome,       \* <<>> while running; <<"return", value>> or <<exception, message>>
    \* ---- the transport under Jobs.query, Jobs.query_async and Jobs.copy ----
    http_errors,      \* how many requests of the call the remote has answered with an HttpError
    \* ---- Tabledata.insert_all, row by row (tabledata.py) ----
    ia_pc,            \* "idle", "loop", "returned", "raised"
    ia_args,          \* the call: the number of rows of the dataframe, chunksize
    ia_job_id,        \* uuid.uuid4().hex
    ia_index,         \* how many rows the loop has iterated over
    ia_rows,          \* rows: the row dicts gathered for the next request
    ia_remaining,     \* remaining_rows
    ia_requests,      \* the insertAll requests issued, each with the kind of its response
    ia_stored,        \* the dataframe rows the remote has stored
    ia_outcome        \* <<>> while running; <<"return">> or <<exception>>

schema_vars == <<local_schema, remote_schema, subset_result, matches_result>>

retry_vars == <<max_tries, retry_i, retry_pc, op_history, retry_result>>

job_vars == <<job_pc, job_query, job_overlay, job_config, query_reply, total_rows,
              result_pages, seen_page_tokens, current_row, job_schema, now, polls,
              requests, served, job_outcome>>

client_vars == <<cl_pc, cl_args, cl_call, cl_config, cl_cache, cl_log, cl_outcome>>

upload_vars == <<up_pc, up_args, up_tables, up_dataset, up_before, up_cache,
                 up_partition_exists, up_target, up_sent, up_log, up_outcome>>

copy_vars == <<copy_pc, copy_overlay, job_reply, job_state, copy_requests, copy_outcome>>

errors_vars == <<verbose, insert_errors, err_pc, err_row, err_error, printed, err_outcome>>

resource_vars == <<rs_pc, rs_call, rs_reply, rs_requests, rs_outcome>>

transport_vars == <<http_errors>>

insert_vars == <<ia_pc, ia_args, ia_job_id, ia_index, ia_rows, ia_remaining, ia_requests,
                 ia_stored, ia_outcome>>

vars == <<schema_vars, retry_vars, job_vars, client_vars, upload_vars, copy_vars,
          errors_vars, resource_vars, transport_vars,
                  insert_vars>>

\* What each layer leaves alone: the variables of the other layers.
beside_schema == <<retry_vars, job_vars, client_vars, upload_vars, copy_vars, errors_vars,
                  resource_vars, transport_vars,
                  insert_vars>>

beside_retry == <<schema_vars, job_vars, client_vars, upload_vars, copy_vars, errors_vars,
                  resource_vars, transport_vars,
                  insert_vars>>

layers_beside_job == <<schema_vars, retry_vars, client_vars, upload_vars, copy_vars, errors_vars,
                  resource_vars,
                  insert_vars>>

beside_job == <<layers_beside_job, transport_vars>>

beside_client == <<schema_vars, retry_vars, job_vars, upload_vars, copy_vars, errors_vars,
                  resource_vars, transport_vars,
                  insert_vars>>

beside_upload == <<schema_vars, retry_vars, job_vars, client_vars, copy_vars, errors_vars,
                  resource_vars, transport_vars,
                  insert_vars>>

layers_beside_copy == <<schema_vars, retry_vars, job_vars, client_vars, upload_vars, errors_vars,
                  resource_vars,
                  insert_vars>>

beside_copy == <<layers_beside_copy, transport_vars>>

beside_errors == <<schema_vars, retry_vars, job_vars, client_vars, upload_vars, copy_vars,
                  resource_vars, transport_vars,
                  insert_vars>>

beside_resource == <<schema_vars, retry_vars, job_vars, client_vars, upload_vars, copy_vars,
                    errors_vars, transport_vars,
                  insert_vars>>

beside_insert == <<schema_vars, retry_vars, job_vars, client_vars, upload_vars, copy_vars,
                  errors_vars, resource_vars, transport_vars>>

(***************************************************************************)
(* Text.  A Python str is a tuple of one-character strings; str.lower()    *)
(* maps every upper-case ASCII letter to its lower-case letter and leaves  *)
(* every other character alone.                                            *)
(***************************************************************************)
UpperAlpha == <<"A","B","C","D","E","F","G","H","I","J","K","L","M",
                "N","O","P","Q","R","S","T","U","V","W","X","Y","Z">>

LowerAlpha == <<"a","b","c","d","e","f","g","h","i","j","k","l","m",
                "n","o","p","q","r","s","t","u","v","w","x","y","z">>

LowerChar(c) ==
    IF \E i \in DOMAIN UpperAlpha : UpperAlpha[i] = c
    THEN LowerAlpha[CHOOSE i \in DOMAIN UpperAlpha : UpperAlpha[i] = c]
    ELSE c

lower(s) == [i \in 1..Len(s) |-> LowerChar(s[i])]

\* Python's `x in s` on two strs: x occurs in s as a contiguous substring.
str_in(x, s) ==
    \E i \in 0..(Len(s) - Len(x)) : SubSeq(s, i + 1, i + Len(x)) = x

(***************************************************************************)
(* Schema reconciler (tables.py).  A schema is a sequence of fields, a     *)
(* field a record [name, type].                                            *)
(***************************************************************************)
MaxFields == 2

FieldNames == { <<"i","d">>, <<"I","d">>, <<"t","s">> }

FieldTypes == { "INTEGER", "STRING" }

Fields == [name : FieldNames, type : FieldTypes]

Schemas == UNION { [1..n -> Fields] : n \in 0..MaxFields }

\* [{'name': f['name'].lower(), 'type': f['type']} for f in ...]
normalize_fields(fields) ==
    [i \in 1..Len(fields) |->
        [name |-> lower(fields[i].name), type |-> fields[i].type]]

\* A mutant of schema_is_subset: the remote names are compared as they are.
schema_is_subset_raw_remote(remote, schema) ==
    LET fields_local == normalize_fields(schema)
    IN  \A i \in DOMAIN fields_local :
            \E j \in DOMAIN remote : remote[j] = fields_local[i]

\* Tables.schema_is_subset: all(field in fields_remote for field in fields_local)
schema_is_subset(remote, schema) ==
    LET fields_remote == normalize_fields(remote)
        fields_local  == normalize_fields(schema)
    IN  \A i \in DOMAIN fields_local :
            \E j \in DOMAIN fields_remote : fields_remote[j] = fields_local[i]

\* Python orders strs by code point, character by character.
CodeOrder == <<" ", "$", ".">> \o UpperAlpha \o <<"_">> \o LowerAlpha

CodeOf(c) == CHOOSE i \in DOMAIN CodeOrder : CodeOrder[i] = c

CharLess(c, d) == CodeOf(c) < CodeOf(d)

\* Python's sorted(..., key=lambda x: x['name']) is a stable sort on the name:
\* the one arrangement of the fields that is ordered by name and keeps the
\* input order among fields of equal name.
NameLess(a, b) ==
    \E k \in 1..(IF Len(a) < Len(b) THEN Len(a) ELSE Len(b)) + 1 :
        /\ \A m \in 1..(k - 1) : a[m] = b[m]
        /\ IF k > Len(a) THEN k <= Len(b)
           ELSE /\ k <= Len(b)
                /\ CharLess(a[k], b[k])

sorted_by_name(fields) ==
    LET n == Len(fields)
        Perms == { p \in [1..n -> 1..n] : \A i, j \in 1..n : i # j => p[i] # p[j] }
        Stable(p) ==
            \A i, j \in 1..n : i < j =>
                \/ NameLess(fields[p[i]].name, fields[p[j]].name)
                \/ fields[p[i]].name = fields[p[j]].name /\ p[i] < p[j]
        p == CHOOSE q \in Perms : Stable(q)
    IN  [i \in 1..n |-> fields[p[i]]]

\* Tables.schema_matches: both sides normalised, sorted by name, compared.
schema_matches(remote, schema) ==
    sorted_by_name(normalize_fields(remote)) = sorted_by_name(normalize_fields(schema))

SchemaIdle ==
    /\ local_schema = <<>>
    /\ remote_schema = <<>>
    /\ subset_result = <<>>
    /\ matches_result = <<>>

\* A response that carries nothing: the value of query_reply before any response.
NoReply == [jobComplete |-> FALSE, totalRows |-> -1, rows |-> -1, pageToken |-> 0, id |-> 0]

JobIdle ==
    /\ job_pc = "idle"
    /\ job_query = <<>>
    /\ job_overlay = <<>>
    /\ job_config = <<>>
    /\ query_reply = NoReply
    /\ total_rows = 0
    /\ result_pages = <<>>
    /\ seen_page_tokens = <<>>
    /\ current_row = 0
    /\ job_schema = 0
    /\ now = 0
    /\ polls = 0
    /\ requests = <<>>
    /\ served = <<>>
    /\ job_outcome = <<>>

RetryIdle ==
    /\ max_tries = 0
    /\ retry_i = 0
    /\ retry_pc = "idle"
    /\ op_history = <<>>
    /\ retry_result = <<>>

ClientIdle ==
    /\ cl_pc = "idle"
    /\ cl_args = <<>>
    /\ cl_call = <<>>
    /\ cl_config = <<>>
    /\ cl_cache = <<>>
    /\ cl_log = <<>>
    /\ cl_outcome = <<>>

UploadIdle ==
    /\ up_pc = "idle"
    /\ up_args = <<>>
    /\ up_tables = <<>>
    /\ up_dataset = FALSE
    /\ up_before = <<>>
    /\ up_cache = <<>>
    /\ up_partition_exists = FALSE
    /\ up_target = <<>>
    /\ up_sent = 0
    /\ up_log = <<>>
    /\ up_outcome = <<>>

\* The job at the remote before Jobs.copy has submitted it.
NoJob == [state |-> "NONE", errorResult |-> FALSE]

CopyIdle ==
    /\ copy_pc = "idle"
    /\ copy_overlay = <<>>
    /\ job_reply = <<>>
    /\ job_state = NoJob
    /\ copy_requests = <<>>
    /\ copy_outcome = <<>>

ErrorsIdle ==
    /\ verbose = FALSE
    /\ insert_errors = <<>>
    /\ err_pc = "idle"
    /\ err_row = 0
    /\ err_error = 0
    /\ printed = <<>>
    /\ err_outcome = <<>>

ResourceIdle ==
    /\ rs_pc = "idle"
    /\ rs_call = <<>>
    /\ rs_reply = <<>>
    /\ rs_requests = <<>>
    /\ rs_outcome = <<>>

TransportIdle == http_errors = 0

InsertIdle ==
    /\ ia_pc = "idle"
    /\ ia_args = <<>>
    /\ ia_job_id = <<>>
    /\ ia_index = 0
    /\ ia_rows = <<>>
    /\ ia_remaining = 0
    /\ ia_requests = <<>>
    /\ ia_stored = {}
    /\ ia_outcome = <<>>

IdleBesideSchema ==
    RetryIdle /\ JobIdle /\ ClientIdle /\ UploadIdle /\ CopyIdle /\ ErrorsIdle
    /\ ResourceIdle /\ TransportIdle /\ InsertIdle

IdleBesideRetry ==
    SchemaIdle /\ JobIdle /\ ClientIdle /\ UploadIdle /\ CopyIdle /\ ErrorsIdle
    /\ ResourceIdle /\ TransportIdle /\ InsertIdle

IdleBesideJob ==
    SchemaIdle /\ RetryIdle /\ ClientIdle /\ UploadIdle /\ CopyIdle /\ ErrorsIdle
    /\ ResourceIdle /\ TransportIdle /\ InsertIdle

IdleBesideClient ==
    SchemaIdle /\ RetryIdle /\ JobIdle /\ UploadIdle /\ CopyIdle /\ ErrorsIdle
    /\ ResourceIdle /\ TransportIdle /\ InsertIdle

IdleBesideUpload ==
    SchemaIdle /\ RetryIdle /\ JobIdle /\ ClientIdle /\ CopyIdle /\ ErrorsIdle
    /\ ResourceIdle /\ TransportIdle /\ InsertIdle

IdleBesideCopy ==
    SchemaIdle /\ RetryIdle /\ JobIdle /\ ClientIdle /\ UploadIdle /\ ErrorsIdle
    /\ ResourceIdle /\ TransportIdle /\ InsertIdle

IdleBesideErrors ==
    SchemaIdle /\ RetryIdle /\ JobIdle /\ ClientIdle /\ UploadIdle /\ CopyIdle
    /\ ResourceIdle /\ TransportIdle /\ InsertIdle

IdleBesideInsert ==
    SchemaIdle /\ RetryIdle /\ JobIdle /\ ClientIdle /\ UploadIdle /\ CopyIdle
    /\ ErrorsIdle /\ ResourceIdle /\ TransportIdle

IdleBesideResource ==
    SchemaIdle /\ RetryIdle /\ JobIdle /\ ClientIdle /\ UploadIdle /\ CopyIdle
    /\ ErrorsIdle /\ TransportIdle /\ InsertIdle

InitSchema ==
    /\ local_schema \in Schemas
    /\ remote_schema \in Schemas
    /\ subset_result = <<>>
    /\ matches_result = <<>>
    /\ IdleBesideSchema

\* A call of Tables.schema_is_subset(dataset_id, table_id, schema).
CallSchemaIsSubset ==
    /\ subset_result = <<>>
    /\ subset_result' = <<schema_is_subset(remote_schema, local_schema)>>
    /\ UNCHANGED <<local_schema, remote_schema, matches_result>>
    /\ UNCHANGED beside_schema

\* A call of Tables.schema_matches(dataset_id, table_id, schema).
CallSchemaMatches ==
    /\ matches_result = <<>>
    /\ matches_result' = <<schema_matches(remote_schema, local_schema)>>
    /\ UNCHANGED <<local_schema, remote_schema, subset_result>>
    /\ UNCHANGED beside_schema

NextSchema ==
    \/ CallSchemaIsSubset
    \/ CallSchemaMatches

SpecSchema == InitSchema /\ [][NextSchema]_vars

(***************************************************************************)
(* Claims about the schema reconciler, checked under SpecSchema.           *)
(***************************************************************************)
FieldPair(f) == <<lower(f.name), f.type>>

FieldPairs(fields) == { FieldPair(fields[i]) : i \in DOMAIN fields }

RemoveAt(fields, k) ==
    [i \in 1..(Len(fields) - 1) |-> IF i < k THEN fields[i] ELSE fields[i + 1]]

\* a and b are the same schema up to the letter case of the field names
SameUpToCase(a, b) ==
    /\ Len(a) = Len(b)
    /\ \A i \in DOMAIN a : FieldPair(a[i]) = FieldPair(b[i])

\* b consists of a's fields plus one field whose pair is not in a
ExtendsByNewField(b, a) ==
    \E k \in DOMAIN b :
        /\ RemoveAt(b, k) = a
        /\ FieldPair(b[k]) \notin FieldPairs(a)

\* C10: schema_is_subset(local, remote) holds for a schema against itself, also
\* when the two copies differ only in the letter case of the field names; when
\* the remote is the local schema plus one new field it holds, and when the
\* local is the remote schema plus one new field it does not hold.
C10_SubsetLaw ==
    subset_result # <<>> =>
        /\ SameUpToCase(local_schema, remote_schema) => subset_result[1]
        /\ ExtendsByNewField(remote_schema, local_schema) => subset_result[1]
        /\ ExtendsByNewField(local_schema, remote_schema) => ~subset_result[1]

\* a non-empty remote schema, a local schema with one more, new field: refused
C10_Witness ==
    /\ subset_result = <<FALSE>>
    /\ Len(remote_schema) >= 1
    /\ ExtendsByNewField(local_schema, remote_schema)

\* no two fields of the schema share a lowercased name (BigQuery refuses a
\* table whose field names collide case-insensitively)
DistinctNames(fields) ==
    \A i, j \in DOMAIN fields :
        i # j => lower(fields[i].name) # lower(fields[j].name)

\* C11: schema_matches returns true exactly when the set of (lowercased field
\* name, type) pairs of the local schema equals that of the remote schema; so
\* the result depends neither on the order of the fields of either schema nor
\* on the letter case of the field names.
C11_MatchesIsSetEquality ==
    matches_result # <<>> =>
        (matches_result[1] <=> FieldPairs(local_schema) = FieldPairs(remote_schema))

\* Beside C11: where neither schema repeats a lowercased name, schema_matches
\* is the equality of the two sets of pairs.
MatchesOnDistinctNames ==
    (/\ matches_result # <<>>
     /\ DistinctNames(local_schema)
     /\ DistinctNames(remote_schema)) =>
        (matches_result[1] <=> FieldPairs(local_schema) = FieldPairs(remote_schema))

\* a dataframe with the columns Id and id of one type against a table with the
\* single column id: the same set of pairs, and schema_matches answers False
C11_SamePairsRefused ==
    /\ matches_result = <<FALSE>>
    /\ DistinctNames(remote_schema)
    /\ Len(local_schema) = 2
    /\ Len(remote_schema) = 1
    /\ FieldPairs(local_schema) = FieldPairs(remote_schema)


(***************************************************************************)
(* Bigquery.run_with_retry(func, max_tries, **kwargs)  (bigquery.py).      *)
(* One invocation of func either returns a value, raises an exception      *)
(* derived from Exception (every error kind of exceptions.py derives from  *)
(* ValueError; the strict-mode error is a plain Exception), or raises a    *)
(* BaseException that is no Exception, which `except Exception` lets pass. *)
(***************************************************************************)
MaxTries == 4

OpValues == { "df1", "df2" }

ErrorKinds == { "ValueError", "StrictModeError", "GenericGBQException" }

ExitKinds == { "KeyboardInterrupt" }

\* What the id-th invocation of func can do.
OpOutcomes(id) ==
    [kind : {"ok"}, val : OpValues, id : {id}]
        \cup [kind : {"err"}, val : ErrorKinds, id : {id}]
        \cup [kind : {"exit"}, val : ExitKinds, id : {id}]

InitRetry ==
    /\ max_tries \in 0..MaxTries
    /\ retry_i = 0
    /\ retry_pc = "loop"
    /\ op_history = <<>>
    /\ retry_result = <<>>
    /\ IdleBesideRetry

\* A mutant of attempt_count: the loop index itself.
attempt_count_zero_based(i) == i

\* The attempt count returned with the result: i + 1.
attempt_count(i) == i + 1

\* A mutant of is_last_try: the budget is taken as one attempt longer.
is_last_try_off_by_one(i, n) == i = n

\* if i == max_tries - 1
is_last_try(i, n) == i = n - 1

\* range(0, max_tries) is exhausted: the function falls off its end, returning None.
RetryExhausted ==
    /\ retry_pc = "loop"
    /\ ~(retry_i < max_tries)
    /\ retry_pc' = "returned"
    /\ retry_result' = <<"None">>
    /\ UNCHANGED <<max_tries, retry_i, op_history>>
    /\ UNCHANGED beside_retry

\* One iteration: func returns, and so does run_with_retry.
RetryAttemptReturns ==
    /\ retry_pc = "loop"
    /\ retry_i < max_tries
    /\ \E out \in OpOutcomes(Len(op_history) + 1) :
        /\ out.kind = "ok"
        /\ op_history' = Append(op_history, out)
        /\ retry_result' = <<out.val, attempt_count(retry_i)>>
    /\ retry_pc' = "returned"
    /\ UNCHANGED <<max_tries, retry_i>>
    /\ UNCHANGED beside_retry

\* One iteration: func raises an Exception; re-raised on the last try, else the
\* loop goes on.
RetryAttemptFails ==
    /\ retry_pc = "loop"
    /\ retry_i < max_tries
    /\ \E out \in OpOutcomes(Len(op_history) + 1) :
        /\ out.kind = "err"
        /\ op_history' = Append(op_history, out)
        /\ IF is_last_try(retry_i, max_tries)
           THEN /\ retry_pc' = "raised"
                /\ retry_result' = <<out>>
                /\ UNCHANGED retry_i
           ELSE /\ retry_i' = retry_i + 1
                /\ UNCHANGED <<retry_pc, retry_result>>
    /\ UNCHANGED max_tries
    /\ UNCHANGED beside_retry

\* One iteration: func raises a BaseException that `except Exception` does not
\* catch; it leaves run_with_retry at once.
RetryAttemptExits ==
    /\ retry_pc = "loop"
    /\ retry_i < max_tries
    /\ \E out \in OpOutcomes(Len(op_history) + 1) :
        /\ out.kind = "exit"
        /\ op_history' = Append(op_history, out)
        /\ retry_result' = <<out>>
    /\ retry_pc' = "raised"
    /\ UNCHANGED <<max_tries, retry_i>>
    /\ UNCHANGED beside_retry

NextRetry ==
    \/ RetryExhausted
    \/ RetryAttemptReturns
    \/ RetryAttemptFails
    \/ RetryAttemptExits

SpecRetry == InitRetry /\ [][NextRetry]_vars

(***************************************************************************)
(* Claims about run_with_retry, checked under SpecRetry.                   *)
(***************************************************************************)
Invocations == Len(op_history)

AllFailed(h) == \A j \in DOMAIN h : h[j].kind = "err"

\* func failed on its first k-1 invocations and succeeded on the k-th
FailedThenSucceeded(h) ==
    /\ Len(h) >= 1
    /\ h[Len(h)].kind = "ok"
    /\ AllFailed(SubSeq(h, 1, Len(h) - 1))

\* C7: with max_tries >= 1, when func fails on its first k-1 invocations and
\* succeeds on the k-th, k <= max_tries, the call returns (the k-th result, k)
\* after exactly k invocations, and func is never invoked after a success.
C7_RetrySuccess ==
    /\ (max_tries >= 1 /\ FailedThenSucceeded(op_history)) =>
            /\ Invocations <= max_tries
            /\ retry_pc = "returned"
            /\ retry_result = <<op_history[Invocations].val, Invocations>>
    /\ \A j \in DOMAIN op_history : op_history[j].kind = "ok" => j = Invocations

\* two failures, then a success on the third try
C7_Witness ==
    /\ retry_pc = "returned"
    /\ max_tries >= 3
    /\ Invocations = 3
    /\ FailedThenSucceeded(op_history)
    /\ retry_result = <<"df1", 3>>

\* C8: with max_tries >= 1, when every invocation of func fails, func is invoked
\* exactly max_tries times whatever the error kind, and the exception of the
\* last invocation is the one raised to the caller.
C8_RetryExhaustion ==
    (max_tries >= 1 /\ AllFailed(op_history)) =>
        /\ Invocations <= max_tries
        /\ Invocations < max_tries => retry_pc = "loop"
        /\ Invocations = max_tries =>
                /\ retry_pc = "raised"
                /\ retry_result = <<op_history[max_tries]>>

\* three tries, all failing, the first with a configuration error
C8_Witness ==
    /\ retry_pc = "raised"
    /\ max_tries = 3
    /\ Invocations = 3
    /\ AllFailed(op_history)
    /\ op_history[1].val = "ValueError"
    /\ op_history[3].val = "GenericGBQException"
    /\ retry_result = <<op_history[3]>>

(***************************************************************************)
(* Job configuration (jobs.py).  A Python dict is a function from its keys *)
(* to its values; None is <<>> and any other optional value v is <<v>>.    *)
(***************************************************************************)
EmptyDict == [k \in {} |-> 0]

\* a.update(b): b's keys win
dict_update(a, b) ==
    [k \in (DOMAIN a) \cup (DOMAIN b) |-> IF k \in DOMAIN b THEN b[k] ELSE a[k]]

\* allowLargeResults is set only where the overlay has not set it
allow_large_results_default(merged) ==
    IF "destinationTable" \in DOMAIN merged
    THEN dict_update([allowLargeResults |-> TRUE], merged)
    ELSE merged

\* lines 158-159 and 313-314: a destination table forces allowLargeResults
allow_large_results(merged) ==
    IF "destinationTable" \in DOMAIN merged
    THEN dict_update(merged, [allowLargeResults |-> TRUE])
    ELSE merged

\* the overlay's query text is let through
query_never_given_twice(section, query) == FALSE

\* lines 151 and 306: the overlay holds a query text and the parameter is not None
query_given_twice(section, query) == "query" \in DOMAIN section /\ query # <<>>

\* Jobs.query / Jobs.query_async, lines 140-161 and 295-317: the job_config that
\* is posted, or the message of the ValueError raised instead.
JobsQueryCheck(query, overlay) ==
    LET base == [query |-> query]
    IN  IF overlay = <<>> THEN [error |-> "", config |-> base]
        ELSE LET config == overlay[1]
             IN  IF Cardinality(DOMAIN config) # 1
                 THEN [error |-> "Only one job type must be specified", config |-> base]
                 ELSE IF "query" \in DOMAIN config
                 THEN IF query_given_twice(config["query"], query)
                      THEN [error |-> "Query statement can't be specified inside config",
                            config |-> base]
                      ELSE [error |-> "",
                            config |-> allow_large_results(
                                           dict_update(base, config["query"]))]
                 ELSE [error |-> "Only 'query' job type is supported", config |-> base]

(***************************************************************************)
(* Jobs.query, step by step (jobs.py, lines 113-266).                      *)
(*                                                                         *)
(* The remote is free: every response is any response the API can give.    *)
(* A response is [jobComplete, totalRows, rows, pageToken, id]: totalRows  *)
(* and rows are -1 when the key is absent, rows is otherwise the number of *)
(* rows of the page, pageToken 0 stands for no token (None and '' are      *)
(* alike to `not page_token`), and id numbers the responses from the       *)
(* first one that reports jobComplete: the rows and the schema a response  *)
(* carries are named by it.  Of a response the model keeps the keys the    *)
(* code reads: jobComplete of a status response; totalRows, schema, rows   *)
(* and pageToken of the completing one; rows and pageToken of a page.      *)
(***************************************************************************)
MaxTotal == 3

MaxPageLen == 2

NumTokens == 2

MaxTimeout == 7

MaxPolls == 2

\* The clock is followed until every timeout of the model has expired.
MaxClock == MaxTimeout + 5

SomeQuery == <<"s","e","l","e","c","t"," ","1">>

IncompleteReply == NoReply

CompletionReplies(id) ==
    [jobComplete : {TRUE}, totalRows : -1..MaxTotal, rows : -1..MaxPageLen,
     pageToken : 0..NumTokens, id : {id}]

PageReplies(id) ==
    [jobComplete : {TRUE}, totalRows : {-1}, rows : -1..MaxPageLen,
     pageToken : 0..NumTokens, id : {id}]

\* What a status request (jobs.insert, or getQueryResults without a token) can answer.
StatusReplies == {IncompleteReply} \cup CompletionReplies(1)

\* The configuration overlays Jobs.query is called with.
JobQueryOverlays ==
    { <<>>, <<EmptyDict>>, <<[copy |-> EmptyDict]>>,
      <<[query |-> EmptyDict, copy |-> EmptyDict]>>,
      <<[query |-> [query |-> <<SomeQuery>>]]>> }
        \cup { <<[query |-> [timeoutMs |-> t]]>> : t \in {0, 1, MaxTimeout} }

\* A call of Jobs.query with one of the given queries and overlays.
JobsQueryCalled(queries, overlays) ==
    /\ job_pc = "call"
    /\ job_query \in queries
    /\ job_overlay \in overlays
    /\ job_config = <<>>
    /\ query_reply = NoReply
    /\ total_rows = 0
    /\ result_pages = <<>>
    /\ seen_page_tokens = <<>>
    /\ current_row = 0
    /\ job_schema = 0
    /\ now = 0
    /\ polls = 0
    /\ requests = <<>>
    /\ served = <<>>
    /\ job_outcome = <<>>
    /\ IdleBesideJob

InitQuery == JobsQueryCalled({ <<>>, <<SomeQuery>> }, JobQueryOverlays)

\* The calls that set a timeout, and one that is refused.
InitTimedQuery ==
    JobsQueryCalled({ <<SomeQuery>> },
                    { <<EmptyDict>>, <<[query |-> [timeoutMs |-> 1]]>>,
                      <<[query |-> [timeoutMs |-> MaxTimeout]]>> })

\* The request just issued is answered with an HttpError, or some other way.
Answered(http_error) == http_errors' = http_errors + (IF http_error THEN 1 ELSE 0)

Raise(kind, msg) ==
    /\ job_pc' = "raised"
    /\ job_outcome' = <<kind, msg>>

InsertRequest(config) == [op |-> "jobs.insert", pageToken |-> 0, body |-> config]

PageRequest(token) == [op |-> "jobs.getQueryResults", pageToken |-> token, body |-> <<>>]

\* lines 145-161: the overlay is refused, nothing is posted.
JobsQueryRejects ==
    /\ job_pc = "call"
    /\ JobsQueryCheck(job_query, job_overlay).error # ""
    /\ Raise("ValueError", JobsQueryCheck(job_query, job_overlay).error)
    /\ UNCHANGED <<job_query, job_overlay, job_config, query_reply, total_rows,
                   result_pages, seen_page_tokens, current_row, job_schema, now,
                   polls, requests, served>>
    /\ UNCHANGED beside_job

\* lines 163-172: the timer is started and the job posted; the remote answers.
JobsQuerySubmit ==
    /\ job_pc = "call"
    /\ JobsQueryCheck(job_query, job_overlay).error = ""
    /\ job_config' = JobsQueryCheck(job_query, job_overlay).config
    /\ now' = 0
    /\ requests' = Append(requests, InsertRequest(job_config'))
    /\ \E reply \in StatusReplies :
        /\ query_reply' = reply
        /\ served' = IF reply.jobComplete THEN <<reply>> ELSE <<>>
    /\ job_pc' = "poll"
    /\ UNCHANGED <<job_query, job_overlay, total_rows, result_pages, seen_page_tokens,
                   current_row, job_schema, polls, job_outcome>>
    /\ UNCHANGED beside_job

\* lines 173-182: the post fails; a credential error becomes AccessDenied, an
\* HttpError GenericGBQException (process_http_error always raises).
JobsQuerySubmitFails ==
    /\ job_pc = "call"
    /\ JobsQueryCheck(job_query, job_overlay).error = ""
    /\ job_config' = JobsQueryCheck(job_query, job_overlay).config
    /\ now' = 0
    /\ requests' = Append(requests, InsertRequest(job_config'))
    /\ \E kind \in {"AccessDenied", "GenericGBQException"} :
        Raise(kind, "") /\ Answered(kind = "GenericGBQException")
    /\ UNCHANGED <<job_query, job_overlay, query_reply, total_rows, result_pages,
                   seen_page_tokens, current_row, job_schema, polls, served>>
    /\ UNCHANGED layers_beside_job

\* the elapsed time is rounded up to the next hundredth of a second
get_elapsed_ms_up(t) == 10 * ((t + 9) \div 10)

\* GbqConnector.get_elapsed_seconds() * 1000: round(time.time() - self.start, 2)
\* keeps hundredths of a second, so the milliseconds come rounded to the
\* nearest ten.
get_elapsed_ms(t) == 10 * ((t + 5) \div 10)

\* job_config['query'].get('timeoutMs'): 0 stands for None (both are falsy).
timeout_ms(config) == IF "timeoutMs" \in DOMAIN config THEN config["timeoutMs"] ELSE 0

\* A mutant of timed_out: the timeout is never taken as expired.
timed_out_never(config, t) == FALSE

\* line 192: timeout_ms and timeout_ms < self.get_elapsed_seconds() * 1000
timed_out(config, t) ==
    timeout_ms(config) # 0 /\ timeout_ms(config) < get_elapsed_ms(t)

\* Time passes while the job is being polled.
Tick ==
    /\ \/ job_pc = "poll" /\ ~query_reply.jobComplete
       \/ job_pc = "polling"
    /\ now < MaxClock
    /\ now' = now + 1
    /\ UNCHANGED <<job_pc, job_query, job_overlay, job_config, query_reply, total_rows,
                   result_pages, seen_page_tokens, current_row, job_schema, polls,
                   requests, served, job_outcome>>
    /\ UNCHANGED beside_job

\* line 193, as a step: what the call does when the timeout has expired.
RaiseQueryTimeout ==
    /\ Raise("QueryTimeout", "Query timeout")
    /\ UNCHANGED requests

\* lines 188-193: the job is not complete and the timeout has expired.
PollTimeout ==
    /\ job_pc = "poll"
    /\ ~query_reply.jobComplete
    /\ timed_out(job_config, now)
    /\ RaiseQueryTimeout
    /\ UNCHANGED <<job_query, job_overlay, job_config, query_reply, total_rows,
                   result_pages, seen_page_tokens, current_row, job_schema, now,
                   polls, served>>
    /\ UNCHANGED beside_job

CountPoll == IF polls < MaxPolls THEN polls + 1 ELSE polls

\* lines 188-198, up to the request: the job is not complete and the timeout has
\* not expired, so a status poll is sent.
Poll ==
    /\ job_pc = "poll"
    /\ ~query_reply.jobComplete
    /\ ~timed_out(job_config, now)
    /\ polls' = CountPoll
    /\ job_pc' = "polling"
    /\ UNCHANGED <<job_query, job_overlay, job_config, query_reply, total_rows,
                   result_pages, seen_page_tokens, current_row, job_schema, now,
                   requests, served, job_outcome>>
    /\ UNCHANGED beside_job

\* lines 196-198: the remote answers the status poll.
PollAnswered ==
    /\ job_pc = "polling"
    /\ \E reply \in StatusReplies :
        /\ query_reply' = reply
        /\ served' = IF reply.jobComplete THEN <<reply>> ELSE <<>>
    /\ job_pc' = "poll"
    /\ UNCHANGED <<job_query, job_overlay, job_config, total_rows, result_pages,
                   seen_page_tokens, current_row, job_schema, now, polls, requests,
                   job_outcome>>
    /\ UNCHANGED beside_job

\* The failed status poll is taken for an incomplete job: the loop turns again.
PollFailsRetries ==
    /\ job_pc = "polling"
    /\ Answered(TRUE)
    /\ job_pc' = "poll"
    /\ UNCHANGED <<job_query, job_overlay, job_config, query_reply, total_rows,
                   result_pages, seen_page_tokens, current_row, job_schema, now,
                   polls, requests, served, job_outcome>>
    /\ UNCHANGED layers_beside_job

\* lines 195-200: the status poll fails with an HttpError.
PollFails ==
    /\ job_pc = "polling"
    /\ Answered(TRUE)
    /\ Raise("GenericGBQException", "")
    /\ UNCHANGED <<job_query, job_overlay, job_config, query_reply, total_rows,
                   result_pages, seen_page_tokens, current_row, job_schema, now,
                   polls, requests, served>>
    /\ UNCHANGED layers_beside_job

\* lines 215-224: the job is complete; totalRows (0 when absent) and the schema
\* are read from the completing response.  The timer is not read from here on
\* and its value is dropped.
BeginPaging ==
    /\ job_pc = "poll"
    /\ query_reply.jobComplete
    /\ total_rows' = IF query_reply.totalRows = -1 THEN 0 ELSE query_reply.totalRows
    /\ result_pages' = <<>>
    /\ seen_page_tokens' = <<>>
    /\ current_row' = 0
    /\ job_schema' = query_reply.id
    /\ now' = 0
    /\ job_pc' = "page"
    /\ UNCHANGED <<job_query, job_overlay, job_config, query_reply, polls, requests,
                   served, job_outcome>>
    /\ UNCHANGED beside_job

\* line 227: while 'rows' in query_reply and current_row < total_rows
PageLoopCond == query_reply.rows # -1 /\ current_row < total_rows

\* the page of the response at hand, named by the response
PageOf(reply) == [id |-> reply.id, n |-> reply.rows]

InSeq(x, seq) == \E i \in DOMAIN seq : seq[i] = x

\* lines 260-266: the loop is left with every row received.
PagingReturns ==
    /\ job_pc = "page"
    /\ ~PageLoopCond
    /\ ~(current_row < total_rows)
    /\ job_pc' = "returned"
    /\ job_outcome' = <<"return">>
    /\ UNCHANGED <<job_query, job_overlay, job_config, query_reply, total_rows,
                   result_pages, seen_page_tokens, current_row, job_schema, now,
                   polls, requests, served>>
    /\ UNCHANGED beside_job

\* The loop is left with rows missing, and what was received is returned.
PagingIncompleteReturns ==
    /\ job_pc = "page"
    /\ ~PageLoopCond
    /\ current_row < total_rows
    /\ job_pc' = "returned"
    /\ job_outcome' = <<"return">>
    /\ UNCHANGED <<job_query, job_overlay, job_config, query_reply, total_rows,
                   result_pages, seen_page_tokens, current_row, job_schema, now,
                   polls, requests, served>>
    /\ UNCHANGED beside_job

\* lines 260-261: the loop is left (a response without rows) with rows missing.
PagingIncomplete ==
    /\ job_pc = "page"
    /\ ~PageLoopCond
    /\ current_row < total_rows
    /\ Raise("InvalidPageToken", "")
    /\ UNCHANGED <<job_query, job_overlay, job_config, query_reply, total_rows,
                   result_pages, seen_page_tokens, current_row, job_schema, now,
                   polls, requests, served>>
    /\ UNCHANGED beside_job

\* A mutant of add_page: the page is put in front of the pages held.
add_page_in_front(pages, page) == <<page>> \o pages

\* line 229: result_pages.append(page)
add_page(pages, page) == Append(pages, page)

\* the loop is never left on the count of rows
all_rows_never_received(row, total) == FALSE

\* line 237: current_row == total_rows, on which the loop is left
all_rows_received(row, total) == row = total

\* lines 228-230: the page is taken.
TakePage ==
    /\ job_pc = "page"
    /\ PageLoopCond
    /\ result_pages' = add_page(result_pages, PageOf(query_reply))
    /\ current_row' = current_row + query_reply.rows

\* lines 228-238 and 260-266: the page completes the result: break, and return.
PageLast ==
    /\ TakePage
    /\ all_rows_received(current_row', total_rows)
    /\ job_pc' = "returned"
    /\ job_outcome' = <<"return">>
    /\ UNCHANGED <<job_query, job_overlay, job_config, query_reply, total_rows,
                   seen_page_tokens, job_schema, now, polls, requests, served>>
    /\ UNCHANGED beside_job

\* A mutant of token_missing: a missing token is never noticed.
token_missing_ignored(page_token, row, total) == FALSE

\* line 242: not page_token and current_row < total_rows
token_missing(page_token, row, total) == page_token = 0 /\ row < total

\* line 247: page_token in seen_page_tokens
token_duplicate(page_token, seen) == InSeq(page_token, seen)

\* lines 240-245: rows remain and the response has no token.
PageMissingToken ==
    /\ TakePage
    /\ ~all_rows_received(current_row', total_rows)
    /\ token_missing(query_reply.pageToken, current_row', total_rows)
    /\ Raise("InvalidPageToken", "Required pageToken was missing")
    /\ UNCHANGED <<job_query, job_overlay, job_config, query_reply, total_rows,
                   seen_page_tokens, job_schema, now, polls, requests, served>>
    /\ UNCHANGED beside_job

\* lines 247-248: the token was already seen in this call.
PageDuplicateToken ==
    /\ TakePage
    /\ ~all_rows_received(current_row', total_rows)
    /\ ~token_missing(query_reply.pageToken, current_row', total_rows)
    /\ token_duplicate(query_reply.pageToken, seen_page_tokens)
    /\ Raise("InvalidPageToken", "A duplicate pageToken was returned")
    /\ UNCHANGED <<job_query, job_overlay, job_config, query_reply, total_rows,
                   seen_page_tokens, job_schema, now, polls, requests, served>>
    /\ UNCHANGED beside_job

\* A mutant of record_token: the token is not recorded.
record_token_forgotten(seen, page_token) == seen

\* line 250: seen_page_tokens.append(page_token)
record_token(seen, page_token) == Append(seen, page_token)

\* lines 250-256, up to the request: the token is recorded and the next page asked for.
AskNextPage ==
    /\ TakePage
    /\ ~all_rows_received(current_row', total_rows)
    /\ ~token_missing(query_reply.pageToken, current_row', total_rows)
    /\ ~token_duplicate(query_reply.pageToken, seen_page_tokens)
    /\ seen_page_tokens' = record_token(seen_page_tokens, query_reply.pageToken)
    /\ requests' = Append(requests, PageRequest(query_reply.pageToken))

\* lines 250-256: the next page is fetched, and the remote answers.
PageFetch ==
    /\ AskNextPage
    /\ \E reply \in PageReplies(Len(served) + 1) :
        /\ query_reply' = reply
        /\ served' = Append(served, reply)
    /\ UNCHANGED <<job_pc, job_query, job_overlay, job_config, total_rows, job_schema,
                   now, polls, job_outcome>>
    /\ UNCHANGED beside_job

\* lines 252-258: the page request fails with an HttpError.
PageFetchFails ==
    /\ AskNextPage
    /\ Answered(TRUE)
    /\ Raise("GenericGBQException", "")
    /\ UNCHANGED <<job_query, job_overlay, job_config, query_reply, total_rows,
                   job_schema, now, polls, served>>
    /\ UNCHANGED layers_beside_job

NextQuery ==
    \/ JobsQueryRejects
    \/ JobsQuerySubmit
    \/ JobsQuerySubmitFails
    \/ Tick
    \/ PollTimeout
    \/ Poll
    \/ PollAnswered
    \/ PollFails
    \/ BeginPaging
    \/ PagingReturns
    \/ PagingIncomplete
    \/ PageLast
    \/ PageMissingToken
    \/ PageDuplicateToken
    \/ PageFetch
    \/ PageFetchFails

SpecQuery == InitQuery /\ [][NextQuery]_vars

\* The program runs on, the remote answers, and the clock keeps advancing.
ProgramStep ==
    \/ JobsQueryRejects
    \/ JobsQuerySubmit
    \/ JobsQuerySubmitFails
    \/ PollTimeout
    \/ Poll
    \/ PollAnswered
    \/ PollFails
    \/ BeginPaging
    \/ PagingReturns
    \/ PagingIncomplete
    \/ PageLast
    \/ PageMissingToken
    \/ PageDuplicateToken
    \/ PageFetch
    \/ PageFetchFails

FairSpecQuery ==
    InitTimedQuery /\ [][NextQuery]_vars /\ WF_vars(Tick) /\ WF_vars(ProgramStep)

(***************************************************************************)
(* Claims about Jobs.query, checked under SpecQuery and FairSpecQuery.     *)
(***************************************************************************)
\* the result-page requests issued, in order
PageRequests == SelectSeq(requests, LAMBDA r : r.op = "jobs.getQueryResults")

RowsIn(reply) == IF reply.rows = -1 THEN 0 ELSE reply.rows

\* the rows carried by the first i responses served
RECURSIVE RowsServed(_, _)
RowsServed(sv, i) == IF i = 0 THEN 0 ELSE RowsServed(sv, i - 1) + RowsIn(sv[i])

RECURSIVE RowsHeld(_)
RowsHeld(pages) == IF pages = <<>> THEN 0 ELSE pages[1].n + RowsHeld(Tail(pages))

\* totalRows as the completing response reports it (0 when it has none)
ReportedTotal == IF served[1].totalRows = -1 THEN 0 ELSE served[1].totalRows

\* served[i] carries a token that an earlier response carried
RepeatsToken(i) ==
    /\ served[i].pageToken # 0
    /\ \E j \in 1..(i - 1) : served[j].pageToken = served[i].pageToken

\* The first k responses are non-empty pages, none goes beyond totalRows, and
\* each that leaves rows outstanding carries a token carried by none before it.
WellServed(k) ==
    \A i \in 1..k :
        /\ served[i].rows >= 1
        /\ RowsServed(served, i) <= ReportedTotal
        /\ RowsServed(served, i) < ReportedTotal =>
                served[i].pageToken # 0 /\ ~RepeatsToken(i)

Paging == job_pc \in {"page", "returned", "raised"} /\ served # <<>>

\* C1: when the remote reports totalRows = N and serves the rows as K non-empty
\* pages, every non-final one with a token distinct from all earlier ones, the
\* call returns exactly those K pages in the order served, N rows in all, after
\* exactly K-1 page requests, each with the token of the response before it,
\* and with the schema of the completing response; and while the pages are
\* being served so, only a failing request can end the call.
C1_PaginationRoundTrip ==
    Paging =>
        /\ \A k \in 1..Len(served) :
            (WellServed(k) /\ RowsServed(served, k) = ReportedTotal) =>
                /\ Len(served) = k
                /\ job_pc # "raised"
                /\ PageRequests = [i \in 1..(k - 1) |-> PageRequest(served[i].pageToken)]
                /\ job_schema = served[1].id
                /\ job_pc = "returned" =>
                        /\ result_pages = [i \in 1..k |-> PageOf(served[i])]
                        /\ RowsHeld(result_pages) = ReportedTotal
                /\ job_pc = "page" =>
                        result_pages = [i \in 1..(k - 1) |-> PageOf(served[i])]
        /\ (WellServed(Len(served)) /\ RowsServed(served, Len(served)) < ReportedTotal) =>
                /\ job_pc # "returned"
                /\ job_pc = "raised" => job_outcome[1] = "GenericGBQException"

\* three rows served as three pages of one row
C1_Witness ==
    /\ job_pc = "returned"
    /\ Len(served) = 3
    /\ ReportedTotal = 3
    /\ WellServed(3)
    /\ Len(result_pages) = 3

\* C2: a response that leaves rows outstanding and carries a token that an
\* earlier response of the call carried ends the call with InvalidPageToken;
\* no page request follows it.
C2_DuplicateToken ==
    Paging =>
        \A i \in 1..Len(served) :
            (RepeatsToken(i) /\ RowsServed(served, i) < ReportedTotal) =>
                /\ Len(served) = i
                /\ Len(PageRequests) = i - 1
                /\ job_pc # "returned"
                /\ job_pc = "raised" => job_outcome[1] = "InvalidPageToken"

\* the third response repeats the token of the first
C2_Witness ==
    /\ job_pc = "raised"
    /\ job_outcome = <<"InvalidPageToken", "A duplicate pageToken was returned">>
    /\ Len(served) = 3
    /\ served[3].pageToken = served[1].pageToken
    /\ served[2].pageToken # served[1].pageToken

\* C3: a response that carries rows, leaves the accumulated count below
\* totalRows and has no page token ends the call with InvalidPageToken; no page
\* request follows it.
C3_MissingToken ==
    Paging =>
        \A i \in 1..Len(served) :
            (served[i].rows # -1 /\ served[i].pageToken = 0
                /\ RowsServed(served, i) < ReportedTotal) =>
                /\ Len(served) = i
                /\ Len(PageRequests) = i - 1
                /\ job_pc # "returned"
                /\ job_pc = "raised" =>
                        job_outcome = <<"InvalidPageToken", "Required pageToken was missing">>

\* the second page leaves a row outstanding and has no token
C3_Witness ==
    /\ job_pc = "raised"
    /\ job_outcome = <<"InvalidPageToken", "Required pageToken was missing">>
    /\ Len(served) = 2
    /\ served[2].rows >= 1
    /\ Len(PageRequests) = 1

TimedOut == job_pc = "raised" /\ job_outcome[1] = "QueryTimeout"

\* C4: with a positive timeoutMs, while the clock keeps advancing, a call that
\* is polling ends with QueryTimeout unless the remote reports the job
\* complete or a request fails; and when QueryTimeout is raised, the requests
\* issued are the jobs.insert and status polls only: nothing is sent after the
\* last poll, in particular no cancel.
C4_TimeoutFires ==
    /\ (job_pc \in {"poll", "polling"} /\ timeout_ms(job_config) > 0)
            ~> (TimedOut \/ served # <<>> \/ (job_pc = "raised" /\ job_outcome[1] = "GenericGBQException"))
    /\ [](TimedOut => (served = <<>> /\ Len(requests) = 1 /\ requests[1].op = "jobs.insert"))
    /\ [][TimedOut => UNCHANGED <<requests, polls>>]_vars

\* the timeout fired after the job had been polled twice
C4_Witness ==
    /\ TimedOut
    /\ polls >= 2
    /\ timeout_ms(job_config) = MaxTimeout
    /\ served = <<>>

(***************************************************************************)
(* The query entry points: Bigquery.query, Bigquery.query_async,           *)
(* Bigquery.query_batch (bigquery.py), BigqueryJupyter.query               *)
(* (bigquery_jupyter.py), and Jobs.query, Jobs.query_async, Jobs.copy      *)
(* called directly (jobs.py).                                              *)
(*                                                                         *)
(* Here a call of a Jobs method is one step: it refuses the configuration, *)
(* or posts the job and then raises or returns.  cl_log records what the   *)
(* call did outside the process: a look at the cache file, a job posted.   *)
(***************************************************************************)
partitiondate == <<"p","a","r","t","i","t","i","o","n","d","a","t","e">>

partitiontime == <<"_","p","a","r","t","i","t","i","o","n","t","i","m","e">>

table_suffix == <<"_","t","a","b","l","e","_","s","u","f","f","i","x">>

\* the tuple of _check_strict
StrictMarkers == { partitiondate, partitiontime, table_suffix, <<"$">> }

\* A mutant of check_strict: the query is searched as written.
check_strict_as_written(query, strict) ==
    strict /\ ~ \E x \in StrictMarkers : str_in(x, query)

\* Bigquery._check_strict
check_strict(query, strict) ==
    strict /\ ~ \E x \in StrictMarkers : str_in(x, lower(query))

\* The query texts the entry points are called with: texts holding one of the
\* markers in lower, upper and mixed case, and texts that hold none.
QueryTexts ==
    { SomeQuery,
      <<"a","$","b">>,
      partitiondate,
      <<"P","a","r","t","i","t","i","o","n","D","a","t","e">>,
      <<"x","_","P","A","R","T","I","T","I","O","N","T","I","M","E">>,
      <<"_","T","a","b","l","e","_","S","u","f","f","i","x"," ">>,
      <<"p","a","r","t","i","t","i","o","n"," ","d","a","t","e">>,
      <<"t","a","b","l","e","_","s","u","f","f","i","x">>,
      <<"_","P","A","R","T","I","T","I","O","N","T","I","M">> }

Dialects == { "standard", "legacy", "sql" }

Priorities == { "BATCH", "INTERACTIVE", "LOW" }

\* The configuration keyword the entry points of Bigquery are called with.
ClientOverlays ==
    { <<>>, <<EmptyDict>>, <<[query |-> EmptyDict]>>, <<[query |-> [timeoutMs |-> 5]]>>,
      <<[copy |-> EmptyDict]>>, <<[query |-> EmptyDict, copy |-> EmptyDict]>>,
      <<[copy |-> EmptyDict, load |-> EmptyDict]>> }

\* The configuration keyword Jobs.copy is called with.
CopyOverlays ==
    { <<>>, <<EmptyDict>>, <<[copy |-> EmptyDict]>>,
      <<[copy |-> [writeDisposition |-> "WRITE_TRUNCATE"]]>>,
      <<[copy |-> [sourceTable |-> "other"]]>>,
      <<[query |-> EmptyDict]>>, <<[copy |-> EmptyDict, query |-> EmptyDict]>> }

\* only a source table in the overlay is looked for
names_source_table(section) == "sourceTable" \in DOMAIN section

\* Jobs.copy, lines 66-67: the overlay names a table of its own
names_tables(section) ==
    "destinationTable" \in DOMAIN section \/ "sourceTable" \in DOMAIN section

\* Jobs.copy, lines 46-73: the job_config that is posted, or the message of
\* the ValueError raised instead.
JobsCopyCheck(overlay) ==
    LET base == [destinationTable |-> "destination", sourceTable |-> "source"]
    IN  IF overlay = <<>> THEN [error |-> "", config |-> base]
        ELSE LET config == overlay[1]
             IN  IF Cardinality(DOMAIN config) # 1
                 THEN [error |-> "Only one job type must be specified", config |-> base]
                 ELSE IF "copy" \in DOMAIN config
                 THEN IF names_tables(config["copy"])
                      THEN [error |-> "source and destination table must be specified as parameters",
                            config |-> base]
                      ELSE [error |-> "", config |-> dict_update(base, config["copy"])]
                 ELSE [error |-> "Only 'copy' job type is supported", config |-> base]

\* Bigquery.query, lines 137-146 (and Bigquery.query_async, lines 110-119): the
\* configuration handed to Jobs.  An overlay without a 'query' key is replaced.
build_config(overlay, priority, dialect) ==
    LET config ==
            IF overlay # <<>> /\ "query" \in DOMAIN overlay[1]
            THEN dict_update(overlay[1],
                     [query |-> dict_update(overlay[1]["query"], [priority |-> priority])])
            ELSE [query |-> [priority |-> priority]]
    IN  dict_update(config,
            [query |-> dict_update(config["query"], [useLegacySql |-> (dialect = "legacy")])])

\* BigqueryJupyter.query, lines 25-33: the comment put in front of the query
\* (user and notebook are abridged to one letter each).
querycomment == <<"/","*"," ","u"," ","n"," ","*","/">>

commentedquery(query) == querycomment \o <<"\n">> \o query

\* lines 36-38: the name of the cache file is made of the project id and the
\* query as the caller wrote it.
cache_key(query) == <<"project", query>>

\* Bigquery.query, lines 149-152: pages are popped off the end of the list, so
\* the frames are concatenated last page first.
RECURSIVE parse_pages(_)
parse_pages(pages) ==
    IF pages = <<>> THEN <<>>
    ELSE <<pages[Len(pages)]>> \o parse_pages(SubSeq(pages, 1, Len(pages) - 1))

\* What Jobs.query can return as pages: pages are named 1, 2 in the order received.
JobPages == { <<>>, <<1>>, <<1, 2>> }

\* The dataframe a cache file written by an earlier call holds.
CachedFrame == <<0>>

BigqueryCalls ==
    [klass : {"Bigquery", "BigqueryJupyter"}, method : {"query", "query_async"},
     query : QueryTexts, dialect : Dialects, priority : Priorities, strict : BOOLEAN,
     local_cache : BOOLEAN, overlay : ClientOverlays]
    \cup
    [klass : {"Bigquery", "BigqueryJupyter"}, method : {"query_batch"},
     query : QueryTexts, dialect : Dialects, priority : {"BATCH"}, strict : BOOLEAN,
     local_cache : {TRUE}, overlay : ClientOverlays]

JobsCalls ==
    [klass : {"Jobs"}, method : {"jobs.query", "jobs.query_async"},
     query : {SomeQuery}, dialect : {"standard"}, priority : {"BATCH"}, strict : {FALSE},
     local_cache : {FALSE}, overlay : ClientOverlays]
    \cup
    [klass : {"Jobs"}, method : {"jobs.copy"},
     query : {SomeQuery}, dialect : {"standard"}, priority : {"BATCH"}, strict : {FALSE},
     local_cache : {FALSE}, overlay : CopyOverlays]

\* The frame of a call: the method running, and what it was passed.  store is
\* <<key>> when the result is to be written to the cache under key.
Frame(method, query, dialect, priority, strict, overlay, store) ==
    [method |-> method, query |-> query, dialect |-> dialect, priority |-> priority,
     strict |-> strict, overlay |-> overlay, store |-> store]

FrameOf(args) ==
    Frame(args.method, args.query, args.dialect, args.priority, args.strict,
          args.overlay, <<>>)

InitClient ==
    /\ cl_args \in { a \in BigqueryCalls :
                        a.klass = "Bigquery" \/ a.method = "query_async" => a.local_cache }
                   \cup JobsCalls
    /\ cl_call = FrameOf(cl_args)
    /\ cl_pc = IF cl_args.klass = "Jobs" THEN "jobs" ELSE "call"
    /\ cl_config = IF cl_args.klass = "Jobs" THEN cl_args.overlay ELSE <<>>
    /\ cl_cache \in { EmptyDict, [k \in {cache_key(cl_args.query)} |-> CachedFrame] }
    /\ cl_log = <<>>
    /\ cl_outcome = <<>>
    /\ IdleBesideClient

\* The method named query is BigqueryJupyter.query on a BigqueryJupyter
\* instance; Bigquery.query runs on a Bigquery instance and as super.query.
RunsJupyterQuery == cl_call.method = "query" /\ cl_args.klass = "BigqueryJupyter"

RunsBigqueryQuery ==
    \/ cl_call.method = "super.query"
    \/ cl_call.method = "query" /\ cl_args.klass = "Bigquery"

RunsGuarded == cl_call.method \in {"query", "super.query", "query_async"}

ClientRaise(kind, msg) ==
    /\ cl_pc' = "raised"
    /\ cl_outcome' = <<kind, msg>>

\* Bigquery.query_batch, line 330: self.query with priority='BATCH'.
QueryBatch ==
    /\ cl_pc = "call"
    /\ cl_call.method = "query_batch"
    /\ cl_call' = [cl_call EXCEPT !.method = "query", !.priority = "BATCH"]
    /\ UNCHANGED <<cl_pc, cl_args, cl_config, cl_cache, cl_log, cl_outcome>>
    /\ UNCHANGED beside_client

\* bigquery.py lines 104-108 and 125-129, bigquery_jupyter.py lines 20-24.
StrictGuardRejects ==
    /\ cl_pc = "call"
    /\ RunsGuarded
    /\ check_strict(cl_call.query, cl_call.strict)
    /\ ClientRaise("Exception", "Strict mode error")
    /\ UNCHANGED <<cl_args, cl_call, cl_config, cl_cache, cl_log>>
    /\ UNCHANGED beside_client

StrictGuardPasses ==
    /\ cl_pc = "call"
    /\ RunsGuarded
    /\ ~check_strict(cl_call.query, cl_call.strict)
    /\ cl_pc' = "checked"
    /\ UNCHANGED <<cl_args, cl_call, cl_config, cl_cache, cl_log, cl_outcome>>
    /\ UNCHANGED beside_client

CacheLookup(key) == [op |-> "cache.exists", key |-> key, body |-> <<>>]

JobPosted(config) == [op |-> "jobs.insert", key |-> <<>>, body |-> config]

\* bigquery_jupyter.py lines 35-42: the cache file exists and is returned.
JupyterCacheHit ==
    /\ cl_pc = "checked"
    /\ RunsJupyterQuery
    /\ cl_args.local_cache
    /\ cache_key(cl_call.query) \in DOMAIN cl_cache
    /\ cl_log' = Append(cl_log, CacheLookup(cache_key(cl_call.query)))
    /\ cl_pc' = "returned"
    /\ cl_outcome' = <<"return", cl_cache[cache_key(cl_call.query)]>>
    /\ UNCHANGED <<cl_args, cl_call, cl_config, cl_cache>>
    /\ UNCHANGED beside_client

\* A mutant of JupyterCacheMiss: the result is not written to the cache file.
JupyterCacheMissNoStore ==
    /\ cl_pc = "checked"
    /\ RunsJupyterQuery
    /\ cl_args.local_cache
    /\ cache_key(cl_call.query) \notin DOMAIN cl_cache
    /\ cl_log' = Append(cl_log, CacheLookup(cache_key(cl_call.query)))
    /\ cl_call' = Frame("super.query", commentedquery(cl_call.query), cl_call.dialect,
                        cl_call.priority, cl_call.strict, <<>>, <<>>)
    /\ cl_pc' = "call"
    /\ UNCHANGED <<cl_args, cl_config, cl_cache, cl_outcome>>
    /\ UNCHANGED beside_client

\* lines 35-44: no cache file; super.query is called with the commented query,
\* and without the configuration keyword.
JupyterCacheMiss ==
    /\ cl_pc = "checked"
    /\ RunsJupyterQuery
    /\ cl_args.local_cache
    /\ cache_key(cl_call.query) \notin DOMAIN cl_cache
    /\ cl_log' = Append(cl_log, CacheLookup(cache_key(cl_call.query)))
    /\ cl_call' = Frame("super.query", commentedquery(cl_call.query), cl_call.dialect,
                        cl_call.priority, cl_call.strict, <<>>,
                        <<cache_key(cl_call.query)>>)
    /\ cl_pc' = "call"
    /\ UNCHANGED <<cl_args, cl_config, cl_cache, cl_outcome>>
    /\ UNCHANGED beside_client

\* lines 50-52: local_cache is off.
JupyterNoCache ==
    /\ cl_pc = "checked"
    /\ RunsJupyterQuery
    /\ ~cl_args.local_cache
    /\ cl_call' = Frame("super.query", commentedquery(cl_call.query), cl_call.dialect,
                        cl_call.priority, cl_call.strict, <<>>, <<>>)
    /\ cl_pc' = "call"
    /\ UNCHANGED <<cl_args, cl_config, cl_cache, cl_log, cl_outcome>>
    /\ UNCHANGED beside_client

\* bigquery.py lines 131-135.  The message of the second error is made with
\* dialect as well.
QueryArgsInvalid ==
    /\ cl_pc = "checked"
    /\ RunsBigqueryQuery
    /\ \/ cl_call.dialect \notin {"legacy", "standard"}
       \/ cl_call.priority \notin {"BATCH", "INTERACTIVE"}
    /\ ClientRaise("ValueError",
                   IF cl_call.dialect \notin {"legacy", "standard"}
                   THEN "is not valid for dialect" ELSE "is not valid for priority")
    /\ UNCHANGED <<cl_args, cl_call, cl_config, cl_cache, cl_log>>
    /\ UNCHANGED beside_client

\* lines 137-146
QueryBuildConfig ==
    /\ cl_pc = "checked"
    /\ RunsBigqueryQuery
    /\ cl_call.dialect \in {"legacy", "standard"}
    /\ cl_call.priority \in {"BATCH", "INTERACTIVE"}
    /\ cl_config' = <<build_config(cl_call.overlay, cl_call.priority, cl_call.dialect)>>
    /\ cl_call' = [cl_call EXCEPT !.method = "jobs.query"]
    /\ cl_pc' = "jobs"
    /\ UNCHANGED <<cl_args, cl_cache, cl_log, cl_outcome>>
    /\ UNCHANGED beside_client

\* lines 110-121
QueryAsyncBuildConfig ==
    /\ cl_pc = "checked"
    /\ cl_call.method = "query_async"
    /\ cl_config' = <<build_config(cl_call.overlay, cl_call.priority, cl_call.dialect)>>
    /\ cl_call' = [cl_call EXCEPT !.method = "jobs.query_async"]
    /\ cl_pc' = "jobs"
    /\ UNCHANGED <<cl_args, cl_cache, cl_log, cl_outcome>>
    /\ UNCHANGED beside_client

\* The check a Jobs method makes of the configuration it is handed.
JobsCheck ==
    IF cl_call.method = "jobs.copy" THEN JobsCopyCheck(cl_config)
    ELSE JobsQueryCheck(<<cl_call.query>>, cl_config)

\* jobs.py lines 61-73, 145-161, 300-317: the configuration is refused.
JobsRefuses ==
    /\ cl_pc = "jobs"
    /\ JobsCheck.error # ""
    /\ ClientRaise("ValueError", JobsCheck.error)
    /\ UNCHANGED <<cl_args, cl_call, cl_config, cl_cache, cl_log>>
    /\ UNCHANGED beside_client

\* What a Jobs method can raise once the job is posted.  QueryTimeout needs a
\* timeoutMs that is not zero (jobs.py line 192).
JobErrors(method, config) ==
    {"AccessDenied", "GenericGBQException"}
    \cup (IF method = "jobs.query" THEN {"InvalidPageToken"} ELSE {})
    \cup (IF method = "jobs.query" /\ timeout_ms(config) # 0 THEN {"QueryTimeout"} ELSE {})

\* The job is posted and the method raises.
JobsRaises ==
    /\ cl_pc = "jobs"
    /\ JobsCheck.error = ""
    /\ cl_log' = Append(cl_log, JobPosted(JobsCheck.config))
    /\ \E kind \in JobErrors(cl_call.method, JobsCheck.config) : ClientRaise(kind, "")
    /\ UNCHANGED <<cl_args, cl_call, cl_config, cl_cache>>
    /\ UNCHANGED beside_client

\* What the caller gets from the pages Jobs.query returned: Jobs.query called
\* directly returns them as they are; Bigquery.query concatenates them.
ResultOf(pages) ==
    IF cl_args.klass = "Jobs" THEN pages ELSE parse_pages(pages)

\* The job ids the remote hands out.
JobIds == {"job_1", "job_2"}

\* What a Jobs method can return, as its caller passes it on: Jobs.query the
\* pages, Jobs.query_async the jobId of the submission response (jobs.py line
\* 337, bigquery.py line 121), Jobs.copy None.
JobsResults(method) ==
    IF method = "jobs.query" THEN { ResultOf(pages) : pages \in JobPages }
    ELSE IF method = "jobs.query_async" THEN JobIds
    ELSE { <<>> }

\* The job is posted and the method returns.  Jobs.query returns pages, which
\* Bigquery.query makes a dataframe of (lines 148-174); BigqueryJupyter.query
\* writes the dataframe to the cache file (lines 44-48).
JobsReturns ==
    /\ cl_pc = "jobs"
    /\ JobsCheck.error = ""
    /\ cl_log' = Append(cl_log, JobPosted(JobsCheck.config))
    /\ \E value \in JobsResults(cl_call.method) :
        /\ cl_outcome' = <<"return", value>>
        /\ cl_cache' = IF cl_call.store = <<>> THEN cl_cache
                       ELSE dict_update(cl_cache, [k \in {cl_call.store[1]} |-> value])
    /\ cl_pc' = "returned"
    /\ UNCHANGED <<cl_args, cl_call, cl_config>>
    /\ UNCHANGED beside_client

NextClient ==
    \/ QueryBatch
    \/ StrictGuardRejects
    \/ StrictGuardPasses
    \/ JupyterCacheHit
    \/ JupyterCacheMiss
    \/ JupyterNoCache
    \/ QueryArgsInvalid
    \/ QueryBuildConfig
    \/ QueryAsyncBuildConfig
    \/ JobsRefuses
    \/ JobsRaises
    \/ JobsReturns

SpecClient == InitClient /\ [][NextClient]_vars

(***************************************************************************)
(* Claims about the entry points, checked under SpecClient.                *)
(***************************************************************************)
\* c and d are the same character, or the two cases of one letter
CasePair(c, d) ==
    \/ c = d
    \/ \E i \in DOMAIN UpperAlpha : {c, d} = {UpperAlpha[i], LowerAlpha[i]}

\* text holds marker, in some letter case
HoldsInAnyCase(marker, text) ==
    \E i \in 0..(Len(text) - Len(marker)) :
        \A j \in 1..Len(marker) : CasePair(marker[j], text[i + j])

HasMarker(text) == \E m \in StrictMarkers : HoldsInAnyCase(m, text)

\* the four operations of the claim, on either class
GuardedCall == cl_args # <<>> /\ cl_args.method \in {"query", "query_async", "query_batch"}

StrictModeError == cl_pc = "raised" /\ cl_outcome = <<"Exception", "Strict mode error">>

\* C5: a call of Bigquery.query, query_async, query_batch or
\* BigqueryJupyter.query with strict=True whose query holds none of
\* 'partitiondate', '_partitiontime', '_table_suffix', '$' in any letter case
\* never looks at the cache and never posts a job, and it ends in no other way
\* than by raising the strict-mode error; a call whose query holds one of them
\* in some letter case, and a call with strict=False, never raises the
\* strict-mode error.
C5_StrictGuard ==
    GuardedCall =>
        /\ (cl_args.strict /\ ~HasMarker(cl_args.query)) =>
              /\ cl_log = <<>>
              /\ cl_pc \in {"call", "raised"}
              /\ cl_pc = "raised" => StrictModeError
        /\ (~cl_args.strict \/ HasMarker(cl_args.query)) => ~StrictModeError

\* BigqueryJupyter.query refuses a strict call whose text holds no marker,
\* though the cache holds a result for that text
C5_Witness ==
    /\ GuardedCall /\ cl_args.strict /\ ~HasMarker(cl_args.query)
    /\ cl_args.klass = "BigqueryJupyter" /\ cl_args.method = "query"
    /\ cl_args.local_cache
    /\ cache_key(cl_args.query) \in DOMAIN cl_cache
    /\ StrictModeError

\* The job kind of the operation called.
JobKind == IF cl_args.method = "jobs.copy" THEN "copy" ELSE "query"

\* the operations of the claim: the three of Jobs, and Bigquery.query and
\* Bigquery.query_async
TakesOverlay ==
    /\ cl_args # <<>>
    /\ \/ cl_args.klass = "Jobs"
       \/ cl_args.klass = "Bigquery" /\ cl_args.method \in {"query", "query_async"}

\* the overlay's top-level keys are not exactly the job kind
OverlayOffKind ==
    /\ cl_args.overlay # <<>>
    /\ DOMAIN cl_args.overlay[1] # {JobKind}

JobSubmitted == \E i \in DOMAIN cl_log : cl_log[i].op = "jobs.insert"

\* Jobs.query, Jobs.query_async and Jobs.copy refuse such an overlay
JobsRefuseOffKind ==
    (TakesOverlay /\ cl_args.klass = "Jobs" /\ OverlayOffKind) =>
        /\ ~JobSubmitted
        /\ cl_pc # "returned"
        /\ cl_pc = "raised" => cl_outcome[1] = "ValueError"

\* Bigquery.query has returned from a call with an overlay without a 'query' key
C6_Witness ==
    /\ TakesOverlay /\ OverlayOffKind
    /\ cl_args.klass = "Bigquery" /\ cl_args.method = "query"
    /\ "copy" \in DOMAIN cl_args.overlay[1]
    /\ cl_pc = "returned"
    /\ JobSubmitted

\* C6: a call of Jobs.query, Jobs.query_async, Jobs.copy, Bigquery.query or
\* Bigquery.query_async with an overlay whose top-level keys are not exactly
\* the job kind submits no job and does not return; when it has passed the
\* strict guard and the check of dialect and priority, it raises ValueError.
C6_OverlayRefused ==
    (TakesOverlay /\ OverlayOffKind) =>
        /\ ~JobSubmitted
        /\ cl_pc # "returned"
        /\ (cl_pc = "raised" /\ cl_config # <<>>) => cl_outcome[1] = "ValueError"

(***************************************************************************)
(* Bigquery.upload (bigquery.py, lines 176-279) with Tables.exists,        *)
(* Tables.get, Tables.insert, Tables.delete, Tables.schema_is_subset,      *)
(* Tables.delete_and_recreate_table (tables.py) and Tabledata.insert_all   *)
(* (tabledata.py), against a remote table store.                           *)
(*                                                                         *)
(* The remote keeps, for every table, its schema, whether it is time       *)
(* partitioned, and its rows.  Of a partitioned table the store keeps the  *)
(* rows of the partition the destination names.  A streamed row lies in    *)
(* the table's buffer until the remote makes it visible to queries, which  *)
(* it does when it pleases (Settle); a query reads the visible rows.  The  *)
(* rows of the dataframe are 1..n; row 0 is a row that was there before.   *)
(***************************************************************************)
MaxRows == 2

MaxChunk == 2

\* the index of the last c in s
LastIndexOf(s, c) ==
    CHOOSE i \in DOMAIN s : s[i] = c /\ \A j \in (i + 1)..Len(s) : s[j] # c

\* s.rsplit(c, 1) for an s that holds c
rsplit(s, c) ==
    <<SubSeq(s, 1, LastIndexOf(s, c) - 1), SubSeq(s, LastIndexOf(s, c) + 1, Len(s))>>

\* Tables.contains_partition_decorator
contains_partition_decorator(table_id) == str_in(<<"$">>, table_id)

Destinations == { <<"t">>, <<"d", ".", "t">>, <<"d", ".", "t", "$", "1">> }

dataset_id(destination_table) == rsplit(destination_table, ".")[1]

table_id(destination_table) == rsplit(destination_table, ".")[2]

\* Tables.exists, lines 315-318; Bigquery.upload, line 189
root_table_id(table) ==
    IF contains_partition_decorator(table) THEN rsplit(table, "$")[1] ELSE table

partition_id(table) == rsplit(table, "$")[2]

\* str(randint(1, 100000)): which number is drawn shows only in whether the
\* name is taken, and the store the call meets may hold a table of that name.
random_suffix == <<"7">>

\* lines 230-232
temporary_table_id(table) ==
    root_table_id(table) \o <<"_">> \o partition_id(table) \o <<"_">> \o random_suffix

IdField == [name |-> <<"i", "d">>, type |-> "INTEGER"]

IdFieldUpper == [name |-> <<"I", "d">>, type |-> "INTEGER"]

TsField == [name |-> <<"t", "s">>, type |-> "STRING"]

\* Tables.generate_schema_from_dataframe(dataframe)['fields'], for the
\* dataframes uploaded
FrameSchemas == { <<IdFieldUpper>>, <<IdField, TsField>> }

TableSchemas == { <<IdField>>, <<IdField, TsField>> }

Table(schema, partitioned, rows, buffer) ==
    [schema |-> schema, partitioned |-> partitioned, rows |-> rows, buffer |-> buffer]

\* The tables the call can meet under the destination's name.
MetTables ==
    { Table(s, p, r, {}) : s \in TableSchemas, p \in BOOLEAN, r \in { {}, {0} } }

\* A table that bears the name of the temporary table before upload makes it.
StrayTable == Table(<<IdField>>, FALSE, {0}, {})

WithTable(tables, id, table) == dict_update(tables, [k \in {id} |-> table])

WithoutTable(tables, id) == [k \in (DOMAIN tables) \ {id} |-> tables[k]]

\* the rows a table holds, visible or not yet
Held(table) == table.rows \cup table.buffer

UploadCalls ==
    [klass : {"Bigquery", "BigqueryJupyter"}, rows : 0..MaxRows, schema : FrameSchemas,
     destination_table : Destinations, if_exists : {"fail", "replace", "append", "truncate"},
     chunksize : 1..MaxChunk]

InitUpload ==
    /\ up_pc = "start"
    /\ up_args \in UploadCalls
    /\ \E ids \in SUBSET { <<"t">>, temporary_table_id(<<"t", "$", "1">>) } :
        /\ up_tables \in { f \in [ids -> MetTables \cup {StrayTable}] :
                              \A id \in ids : id # <<"t">> => f[id] = StrayTable }
        /\ up_dataset \in (IF ids = {} THEN BOOLEAN ELSE {TRUE})
    /\ up_before = up_tables
    /\ up_cache \in (IF up_args.klass = "BigqueryJupyter" THEN { <<>>, <<0>>, <<1>> }
                     ELSE { <<>> })
    /\ up_partition_exists = FALSE
    /\ up_target = <<>>
    /\ up_sent = 0
    /\ up_log = <<>>
    /\ up_outcome = <<>>
    /\ IdleBesideUpload

\* A request: rows are the dataframe rows an insertAll carries, seen the rows
\* a query job read, body the configuration of a job.
Req(op, table, rows, seen, body) ==
    [op |-> op, table |-> table, rows |-> rows, seen |-> seen, body |-> body]

TablesGet(table) == Req("tables.get", table, <<>>, {}, EmptyDict)

UploadRaise(kind) ==
    /\ up_pc' = "raised"
    /\ up_outcome' = <<kind>>

UploadTable == table_id(up_args.destination_table)

UploadRoot == root_table_id(UploadTable)

\* lines 177-182
UploadArgsInvalid ==
    /\ up_pc = "start"
    /\ \/ up_args.if_exists \notin {"fail", "replace", "append"}
       \/ ~str_in(<<".">>, up_args.destination_table)
    /\ UploadRaise(IF up_args.if_exists \notin {"fail", "replace", "append"}
                   THEN "ValueError" ELSE "NotFoundException")
    /\ UNCHANGED <<up_args, up_tables, up_dataset, up_before, up_cache,
                   up_partition_exists, up_target, up_sent, up_log>>
    /\ UNCHANGED beside_upload

\* lines 184-188
UploadBegin ==
    /\ up_pc = "start"
    /\ up_args.if_exists \in {"fail", "replace", "append"}
    /\ str_in(<<".">>, up_args.destination_table)
    /\ up_pc' = "exists"
    /\ UNCHANGED <<up_args, up_tables, up_dataset, up_before, up_cache,
                   up_partition_exists, up_target, up_sent, up_log, up_outcome>>
    /\ UNCHANGED beside_upload

\* lines 191-193
RootMissing ==
    /\ up_pc = "exists"
    /\ contains_partition_decorator(UploadTable)
    /\ UploadRoot \notin DOMAIN up_tables
    /\ up_log' = Append(up_log, TablesGet(UploadRoot))
    /\ UploadRaise("NotFoundException")
    /\ UNCHANGED <<up_args, up_tables, up_dataset, up_before, up_cache,
                   up_partition_exists, up_target, up_sent>>
    /\ UNCHANGED beside_upload

\* A mutant of RootNotPartitioned: the timePartitioning property is not looked
\* at, and upload goes on to count the rows.
RootNotPartitionedUnchecked ==
    /\ up_pc = "exists"
    /\ contains_partition_decorator(UploadTable)
    /\ UploadRoot \in DOMAIN up_tables
    /\ ~up_tables[UploadRoot].partitioned
    /\ up_log' = up_log \o <<TablesGet(UploadRoot), TablesGet(UploadRoot)>>
    /\ up_pc' = "count"
    /\ UNCHANGED <<up_args, up_tables, up_dataset, up_before, up_cache,
                   up_partition_exists, up_target, up_sent, up_outcome>>
    /\ UNCHANGED beside_upload

\* lines 191-199
RootNotPartitioned ==
    /\ up_pc = "exists"
    /\ contains_partition_decorator(UploadTable)
    /\ UploadRoot \in DOMAIN up_tables
    /\ ~up_tables[UploadRoot].partitioned
    /\ up_log' = up_log \o <<TablesGet(UploadRoot), TablesGet(UploadRoot)>>
    /\ UploadRaise("InvalidSchema")
    /\ UNCHANGED <<up_args, up_tables, up_dataset, up_before, up_cache,
                   up_partition_exists, up_target, up_sent>>
    /\ UNCHANGED beside_upload

RootPartitioned ==
    /\ up_pc = "exists"
    /\ contains_partition_decorator(UploadTable)
    /\ UploadRoot \in DOMAIN up_tables
    /\ up_tables[UploadRoot].partitioned
    /\ up_log' = up_log \o <<TablesGet(UploadRoot), TablesGet(UploadRoot)>>
    /\ up_pc' = "count"
    /\ UNCHANGED <<up_args, up_tables, up_dataset, up_before, up_cache,
                   up_partition_exists, up_target, up_sent, up_outcome>>
    /\ UNCHANGED beside_upload

\* line 201: "SELECT COUNT(*) AS num_rows FROM {0}".format(destination_table)
count_query ==
    <<"S","E","L","E","C","T"," ","C","O","U","N","T","(","*",")"," ","A","S"," ",
      "n","u","m","_","r","o","w","s"," ","F","R","O","M"," ">>
        \o up_args.destination_table

\* lines 201-205: self.query(..., strict=False, priority='INTERACTIVE',
\* dialect='legacy'), and what Jobs.query posts for it.  On a BigqueryJupyter
\* instance self.query is BigqueryJupyter.query, which puts its comment first.
CountJob ==
    LET text == IF up_args.klass = "BigqueryJupyter" THEN commentedquery(count_query)
                ELSE count_query
    IN  Req("jobs.insert", <<>>, <<>>, up_tables[UploadRoot].rows,
            JobsQueryCheck(<<text>>, <<build_config(<<>>, "INTERACTIVE", "legacy")>>).config)

CountCacheLookup ==
    IF up_args.klass = "BigqueryJupyter"
    THEN <<Req("cache.exists", cache_key(count_query), <<>>, {}, EmptyDict)>>
    ELSE <<>>

\* bigquery_jupyter.py lines 36-43: the row count comes from the cache file.
CountCached ==
    /\ up_pc = "count"
    /\ up_args.klass = "BigqueryJupyter"
    /\ up_cache # <<>>
    /\ up_log' = up_log \o CountCacheLookup
    /\ up_partition_exists' = (up_cache[1] > 0)
    /\ up_pc' = "decide"
    /\ UNCHANGED <<up_args, up_tables, up_dataset, up_before, up_cache,
                   up_target, up_sent, up_outcome>>
    /\ UNCHANGED beside_upload

\* The row count comes from a query job, which reads the visible rows.
CountQuery ==
    /\ up_pc = "count"
    /\ up_args.klass = "BigqueryJupyter" => up_cache = <<>>
    /\ up_log' = up_log \o CountCacheLookup \o <<CountJob>>
    /\ up_partition_exists' = (Cardinality(up_tables[UploadRoot].rows) > 0)
    /\ up_cache' = IF up_args.klass = "BigqueryJupyter"
                   THEN <<Cardinality(up_tables[UploadRoot].rows)>> ELSE up_cache
    /\ up_pc' = "decide"
    /\ UNCHANGED <<up_args, up_tables, up_dataset, up_before, up_target, up_sent,
                   up_outcome>>
    /\ UNCHANGED beside_upload

CountFails ==
    /\ up_pc = "count"
    /\ up_args.klass = "BigqueryJupyter" => up_cache = <<>>
    /\ up_log' = up_log \o CountCacheLookup \o <<CountJob>>
    /\ \E kind \in JobErrors("jobs.query", CountJob.body) : UploadRaise(kind)
    /\ UNCHANGED <<up_args, up_tables, up_dataset, up_before, up_cache,
                   up_partition_exists, up_target, up_sent>>
    /\ UNCHANGED beside_upload

\* Tables.schema_is_subset(dataset_id, root_table_id, table_schema): one
\* tables.get, then the comparison.
RootSchemaIsSubset == schema_is_subset(up_tables[UploadRoot].schema, up_args.schema)

\* lines 207-212
PartitionExistsFail ==
    /\ up_pc = "decide"
    /\ up_partition_exists
    /\ up_args.if_exists = "fail"
    /\ UploadRaise("TableCreationError")
    /\ UNCHANGED <<up_args, up_tables, up_dataset, up_before, up_cache,
                   up_partition_exists, up_target, up_sent, up_log>>
    /\ UNCHANGED beside_upload

\* lines 213-219 and 222-228
PartitionSchemaMismatch ==
    /\ up_pc = "decide"
    /\ up_partition_exists
    /\ up_args.if_exists \in {"append", "replace"}
    /\ ~RootSchemaIsSubset
    /\ up_log' = Append(up_log, TablesGet(UploadRoot))
    /\ UploadRaise("InvalidSchema")
    /\ UNCHANGED <<up_args, up_tables, up_dataset, up_before, up_cache,
                   up_partition_exists, up_target, up_sent>>
    /\ UNCHANGED beside_upload

\* lines 213-220
PartitionAppend ==
    /\ up_pc = "decide"
    /\ up_partition_exists
    /\ up_args.if_exists = "append"
    /\ RootSchemaIsSubset
    /\ up_log' = Append(up_log, TablesGet(UploadRoot))
    /\ up_target' = UploadTable
    /\ up_sent' = 0
    /\ up_pc' = "stream"
    /\ UNCHANGED <<up_args, up_tables, up_dataset, up_before, up_cache,
                   up_partition_exists, up_outcome>>
    /\ UNCHANGED beside_upload

\* lines 222-232: the temporary table is to be made
PartitionReplace ==
    /\ up_pc = "decide"
    /\ up_partition_exists
    /\ up_args.if_exists = "replace"
    /\ RootSchemaIsSubset
    /\ up_log' = Append(up_log, TablesGet(UploadRoot))
    /\ up_target' = temporary_table_id(UploadTable)
    /\ up_pc' = "create"
    /\ UNCHANGED <<up_args, up_tables, up_dataset, up_before, up_cache,
                   up_partition_exists, up_sent, up_outcome>>
    /\ UNCHANGED beside_upload

\* lines 255-256
PartitionEmpty ==
    /\ up_pc = "decide"
    /\ ~up_partition_exists
    /\ up_target' = UploadTable
    /\ up_sent' = 0
    /\ up_pc' = "stream"
    /\ UNCHANGED <<up_args, up_tables, up_dataset, up_before, up_cache,
                   up_partition_exists, up_log, up_outcome>>
    /\ UNCHANGED beside_upload

\* lines 258-259 and 276-277: the table does not exist and is to be made
TableAbsent ==
    /\ up_pc = "exists"
    /\ ~contains_partition_decorator(UploadTable)
    /\ UploadTable \notin DOMAIN up_tables
    /\ up_log' = Append(up_log, TablesGet(UploadTable))
    /\ up_target' = UploadTable
    /\ up_pc' = "create"
    /\ UNCHANGED <<up_args, up_tables, up_dataset, up_before, up_cache,
                   up_partition_exists, up_sent, up_outcome>>
    /\ UNCHANGED beside_upload

\* A mutant of TableExistsFail: if_exists='fail' is taken for 'append' without
\* the schema gate.
TableExistsFailStreams ==
    /\ up_pc = "exists"
    /\ ~contains_partition_decorator(UploadTable)
    /\ UploadTable \in DOMAIN up_tables
    /\ up_args.if_exists = "fail"
    /\ up_log' = Append(up_log, TablesGet(UploadTable))
    /\ up_target' = UploadTable
    /\ up_sent' = 0
    /\ up_pc' = "stream"
    /\ UNCHANGED <<up_args, up_tables, up_dataset, up_before, up_cache,
                   up_partition_exists, up_outcome>>
    /\ UNCHANGED beside_upload

\* lines 259-265
TableExistsFail ==
    /\ up_pc = "exists"
    /\ ~contains_partition_decorator(UploadTable)
    /\ UploadTable \in DOMAIN up_tables
    /\ up_args.if_exists = "fail"
    /\ up_log' = Append(up_log, TablesGet(UploadTable))
    /\ UploadRaise("TableCreationError")
    /\ UNCHANGED <<up_args, up_tables, up_dataset, up_before, up_cache,
                   up_partition_exists, up_target, up_sent>>
    /\ UNCHANGED beside_upload

\* A mutant of TablesInsertRequests: the dataset is not looked for, and the
\* table is made at once.
TablesInsertRequestsNoDataset(table) ==
    <<TablesGet(table), Req("tables.insert", table, <<>>, {}, EmptyDict)>>

\* What Tables.insert requests when the table is absent (tables.py lines
\* 38-65): the look at the table, the look at the dataset, the making of the
\* dataset when it is absent, the making of the table.
TablesInsertRequests(table) ==
    <<TablesGet(table), Req("datasets.get", <<>>, <<>>, {}, EmptyDict)>>
        \o (IF up_dataset THEN <<>>
            ELSE <<Req("datasets.insert", <<>>, <<>>, {}, EmptyDict)>>)
        \o <<Req("tables.insert", table, <<>>, {}, EmptyDict)>>

\* the existence check alone: no delete request goes out
TablesDeleteRequestsNone(table) == <<TablesGet(table)>>

\* What Tables.delete requests (tables.py lines 80-92)
TablesDeleteRequests(table) ==
    <<TablesGet(table), Req("tables.delete", table, <<>>, {}, EmptyDict)>>

\* lines 266-268, tables.py lines 330-347: schema_matches, delete, insert, sleep
TableRecreate ==
    /\ up_pc = "exists"
    /\ ~contains_partition_decorator(UploadTable)
    /\ UploadTable \in DOMAIN up_tables
    /\ up_args.if_exists = "replace"
    /\ up_log' = up_log \o <<TablesGet(UploadTable), TablesGet(UploadTable)>>
                     \o TablesDeleteRequests(UploadTable)
                     \o TablesInsertRequests(UploadTable)
    /\ up_tables' = WithTable(up_tables, UploadTable, Table(up_args.schema, FALSE, {}, {}))
    /\ up_target' = UploadTable
    /\ up_sent' = 0
    /\ up_pc' = "stream"
    /\ UNCHANGED <<up_args, up_dataset, up_before, up_cache, up_partition_exists,
                   up_outcome>>
    /\ UNCHANGED beside_upload

\* The same, with the making of the table failing after the deletion.
TableRecreateFails ==
    /\ up_pc = "exists"
    /\ ~contains_partition_decorator(UploadTable)
    /\ UploadTable \in DOMAIN up_tables
    /\ up_args.if_exists = "replace"
    /\ up_log' = up_log \o <<TablesGet(UploadTable), TablesGet(UploadTable)>>
                     \o TablesDeleteRequests(UploadTable)
                     \o TablesInsertRequests(UploadTable)
    /\ up_tables' = WithoutTable(up_tables, UploadTable)
    /\ UploadRaise("GenericGBQException")
    /\ UNCHANGED <<up_args, up_dataset, up_before, up_cache, up_partition_exists,
                   up_target, up_sent>>
    /\ UNCHANGED beside_upload

\* lines 269-275
TableSchemaMismatch ==
    /\ up_pc = "exists"
    /\ ~contains_partition_decorator(UploadTable)
    /\ UploadTable \in DOMAIN up_tables
    /\ up_args.if_exists = "append"
    /\ ~schema_is_subset(up_tables[UploadTable].schema, up_args.schema)
    /\ up_log' = up_log \o <<TablesGet(UploadTable), TablesGet(UploadTable)>>
    /\ UploadRaise("InvalidSchema")
    /\ UNCHANGED <<up_args, up_tables, up_dataset, up_before, up_cache,
                   up_partition_exists, up_target, up_sent>>
    /\ UNCHANGED beside_upload

TableAppend ==
    /\ up_pc = "exists"
    /\ ~contains_partition_decorator(UploadTable)
    /\ UploadTable \in DOMAIN up_tables
    /\ up_args.if_exists = "append"
    /\ schema_is_subset(up_tables[UploadTable].schema, up_args.schema)
    /\ up_log' = up_log \o <<TablesGet(UploadTable), TablesGet(UploadTable)>>
    /\ up_target' = UploadTable
    /\ up_sent' = 0
    /\ up_pc' = "stream"
    /\ UNCHANGED <<up_args, up_tables, up_dataset, up_before, up_cache,
                   up_partition_exists, up_outcome>>
    /\ UNCHANGED beside_upload

\* the name is taken and the table that bears it is streamed into
CreateTakenStreams ==
    /\ up_pc = "create"
    /\ up_target \in DOMAIN up_tables
    /\ up_log' = Append(up_log, TablesGet(up_target))
    /\ up_sent' = 0
    /\ up_pc' = "stream"
    /\ UNCHANGED <<up_args, up_tables, up_dataset, up_before, up_cache,
                   up_partition_exists, up_target, up_outcome>>
    /\ UNCHANGED beside_upload

\* Tables.insert, tables.py lines 38-40: the name is taken
CreateTaken ==
    /\ up_pc = "create"
    /\ up_target \in DOMAIN up_tables
    /\ up_log' = Append(up_log, TablesGet(up_target))
    /\ UploadRaise("TableCreationError")
    /\ UNCHANGED <<up_args, up_tables, up_dataset, up_before, up_cache,
                   up_partition_exists, up_target, up_sent>>
    /\ UNCHANGED beside_upload

\* Tables.insert, tables.py lines 38-65: the table is made, empty, with the
\* schema of the dataframe
CreateTable ==
    /\ up_pc = "create"
    /\ up_target \notin DOMAIN up_tables
    /\ up_log' = up_log \o TablesInsertRequests(up_target)
    /\ up_tables' = WithTable(up_tables, up_target, Table(up_args.schema, FALSE, {}, {}))
    /\ up_dataset' = TRUE
    /\ up_sent' = 0
    /\ up_pc' = "stream"
    /\ UNCHANGED <<up_args, up_before, up_cache, up_partition_exists, up_target,
                   up_outcome>>
    /\ UNCHANGED beside_upload

\* tables.py lines 61-67: the request fails
CreateFails ==
    /\ up_pc = "create"
    /\ up_target \notin DOMAIN up_tables
    /\ up_log' = up_log \o TablesInsertRequests(up_target)
    /\ up_dataset' = TRUE
    /\ UploadRaise("GenericGBQException")
    /\ UNCHANGED <<up_args, up_tables, up_before, up_cache, up_partition_exists,
                   up_target, up_sent>>
    /\ UNCHANGED beside_upload

\* The table of the store a table id addresses.
StoreKey(table) == root_table_id(table)

Min(a, b) == IF a < b THEN a ELSE b

\* tabledata.py lines 29-38: the rows of the next insertAll request
next_batch == [i \in 1..(Min(up_sent + up_args.chunksize, up_args.rows) - up_sent) |->
                  up_sent + i]

SeqRange(s) == { s[i] : i \in DOMAIN s }

Streamed(tables, table, rows) ==
    WithTable(tables, StoreKey(table),
              [tables[StoreKey(table)] EXCEPT !.buffer = @ \cup rows])

\* tabledata.py lines 29-67: one insertAll request, accepted whole
InsertAllBatch ==
    /\ up_pc = "stream"
    /\ up_sent < up_args.rows
    /\ up_log' = Append(up_log, Req("tabledata.insertAll", up_target, next_batch, {},
                                    EmptyDict))
    /\ up_tables' = Streamed(up_tables, up_target, SeqRange(next_batch))
    /\ up_sent' = up_sent + Len(next_batch)
    /\ UNCHANGED <<up_pc, up_args, up_dataset, up_before, up_cache,
                   up_partition_exists, up_target, up_outcome>>
    /\ UNCHANGED beside_upload

\* lines 44-65: the request fails, or the response reports insertErrors; the
\* remote has taken some of the rows or none
InsertAllFails ==
    /\ up_pc = "stream"
    /\ up_sent < up_args.rows
    /\ up_log' = Append(up_log, Req("tabledata.insertAll", up_target, next_batch, {},
                                    EmptyDict))
    /\ \E taken \in (SUBSET SeqRange(next_batch)) \ {SeqRange(next_batch)} :
        up_tables' = Streamed(up_tables, up_target, taken)
    /\ \E kind \in {"StreamingInsertError", "GenericGBQException"} : UploadRaise(kind)
    /\ UNCHANGED <<up_args, up_dataset, up_before, up_cache, up_partition_exists,
                   up_target, up_sent>>
    /\ UNCHANGED beside_upload

\* upload is replacing a partition that holds rows (lines 222-253)
InReplacePath ==
    /\ contains_partition_decorator(UploadTable)
    /\ up_partition_exists
    /\ up_args.if_exists = "replace"

\* insert_all has sent every row and returns; but for the replacement of a
\* partition upload returns with it (lines 220, 256, 279)
InsertAllDone ==
    /\ up_pc = "stream"
    /\ up_sent = up_args.rows
    /\ IF InReplacePath
       THEN up_pc' = "sleep" /\ up_outcome' = up_outcome
       ELSE up_pc' = "returned" /\ up_outcome' = <<"return">>
    /\ UNCHANGED <<up_args, up_tables, up_dataset, up_before, up_cache,
                   up_partition_exists, up_target, up_sent, up_log>>
    /\ UNCHANGED beside_upload

\* line 236: sleep(30)
Sleep ==
    /\ up_pc = "sleep"
    /\ up_pc' = "overwrite"
    /\ UNCHANGED <<up_args, up_tables, up_dataset, up_before, up_cache,
                   up_partition_exists, up_target, up_sent, up_log, up_outcome>>
    /\ UNCHANGED beside_upload

\* 'select * from {0}.{1}'.format(dataset_id, temporary_table_id)
select_all(dataset, table) ==
    <<"s","e","l","e","c","t"," ","*"," ","f","r","o","m"," ">> \o dataset \o <<".">> \o table

\* lines 237-252: the job Jobs.query posts; it reads the visible rows of the
\* temporary table
OverwriteJob ==
    Req("jobs.insert", UploadTable, <<>>, up_tables[up_target].rows,
        JobsQueryCheck(<<select_all(dataset_id(up_args.destination_table), up_target)>>,
                       <<[query |-> [destinationTable |-> UploadTable,
                                     createDisposition |-> "CREATE_IF_NEEDED",
                                     writeDisposition |-> "WRITE_TRUNCATE",
                                     allowLargeResults |-> TRUE]]>>).config)

\* What the remote makes of the job: the rows read replace the partition's.
Overwritten(tables) ==
    WithTable(tables, UploadRoot,
              [tables[UploadRoot] EXCEPT !.rows = tables[up_target].rows, !.buffer = {}])

\* lines 237-252: the job is posted, runs, and Jobs.query returns
Overwrite ==
    /\ up_pc = "overwrite"
    /\ up_log' = Append(up_log, OverwriteJob)
    /\ up_tables' = Overwritten(up_tables)
    /\ up_pc' = "delete"
    /\ UNCHANGED <<up_args, up_dataset, up_before, up_cache, up_partition_exists,
                   up_target, up_sent, up_outcome>>
    /\ UNCHANGED beside_upload

\* Jobs.query raises; the job has run or has not
OverwriteRaises ==
    /\ up_pc = "overwrite"
    /\ up_log' = Append(up_log, OverwriteJob)
    /\ up_tables' \in {up_tables, Overwritten(up_tables)}
    /\ \E kind \in JobErrors("jobs.query", OverwriteJob.body) : UploadRaise(kind)
    /\ UNCHANGED <<up_args, up_dataset, up_before, up_cache, up_partition_exists,
                   up_target, up_sent>>
    /\ UNCHANGED beside_upload

\* line 253, tables.py lines 80-92: the temporary table is deleted
DeleteTemporary ==
    /\ up_pc = "delete"
    /\ up_log' = up_log \o TablesDeleteRequests(up_target)
    /\ up_tables' = WithoutTable(up_tables, up_target)
    /\ up_pc' = "returned"
    /\ up_outcome' = <<"return">>
    /\ UNCHANGED <<up_args, up_dataset, up_before, up_cache, up_partition_exists,
                   up_target, up_sent>>
    /\ UNCHANGED beside_upload

\* tables.py lines 83-92: the deletion fails
DeleteTemporaryFails ==
    /\ up_pc = "delete"
    /\ up_log' = up_log \o TablesDeleteRequests(up_target)
    /\ UploadRaise("GenericGBQException")
    /\ UNCHANGED <<up_args, up_tables, up_dataset, up_before, up_cache,
                   up_partition_exists, up_target, up_sent>>
    /\ UNCHANGED beside_upload

\* The remote makes the streamed rows of a table visible to queries.
Settle ==
    /\ up_pc \notin {"idle", "start"}
    /\ \E id \in DOMAIN up_tables :
        /\ up_tables[id].buffer # {}
        /\ up_tables' = WithTable(up_tables, id,
                            [up_tables[id] EXCEPT !.rows = @ \cup up_tables[id].buffer,
                                                  !.buffer = {}])
    /\ UNCHANGED <<up_pc, up_args, up_dataset, up_before, up_cache, up_partition_exists,
                   up_target, up_sent, up_log, up_outcome>>
    /\ UNCHANGED beside_upload

NextUpload ==
    \/ UploadArgsInvalid
    \/ UploadBegin
    \/ RootMissing
    \/ RootNotPartitioned
    \/ RootPartitioned
    \/ CountCached
    \/ CountQuery
    \/ CountFails
    \/ PartitionExistsFail
    \/ PartitionSchemaMismatch
    \/ PartitionAppend
    \/ PartitionReplace
    \/ PartitionEmpty
    \/ TableAbsent
    \/ TableExistsFail
    \/ TableRecreate
    \/ TableRecreateFails
    \/ TableSchemaMismatch
    \/ TableAppend
    \/ CreateTaken
    \/ CreateTable
    \/ CreateFails
    \/ InsertAllBatch
    \/ InsertAllFails
    \/ InsertAllDone
    \/ Sleep
    \/ Overwrite
    \/ OverwriteRaises
    \/ DeleteTemporary
    \/ DeleteTemporaryFails
    \/ Settle

SpecUpload == InitUpload /\ [][NextUpload]_vars

(***************************************************************************)
(* Claims about Bigquery.upload, checked under SpecUpload.                 *)
(***************************************************************************)
\* the call replaces a partition of a partitioned table that held rows when
\* the call was made
ReplaceCase ==
    /\ up_args # <<>>
    /\ up_args.if_exists = "replace"
    /\ str_in(<<".">>, up_args.destination_table)
    /\ contains_partition_decorator(UploadTable)
    /\ UploadRoot \in DOMAIN up_before
    /\ up_before[UploadRoot].partitioned
    /\ up_before[UploadRoot].rows # {}

IsWrite(r) ==
    \/ r.op \in {"datasets.insert", "tables.insert", "tables.delete", "tabledata.insertAll"}
    \/ r.op = "jobs.insert" /\ "destinationTable" \in DOMAIN r.body

Writes == SelectSeq(up_log, IsWrite)

RECURSIVE RowsOf(_)
RowsOf(reqs) == IF reqs = <<>> THEN <<>> ELSE reqs[1].rows \o RowsOf(Tail(reqs))

Frame1toN == [i \in 1..up_args.rows |-> i]

\* creation of the temporary table, streaming inserts of the whole dataframe
\* into it, one job that overwrites the partition, deletion of the temporary
\* table
StagedInOrder(w) ==
    /\ Len(w) >= 3
    /\ w[1].op = "tables.insert" /\ w[1].table = temporary_table_id(UploadTable)
    /\ \A i \in 2..(Len(w) - 2) :
          w[i].op = "tabledata.insertAll" /\ w[i].table = temporary_table_id(UploadTable)
    /\ RowsOf(SubSeq(w, 2, Len(w) - 2)) = Frame1toN
    /\ w[Len(w) - 1].op = "jobs.insert"
    /\ w[Len(w) - 1].body["destinationTable"] = UploadTable
    /\ w[Len(w) - 1].body["writeDisposition"] = "WRITE_TRUNCATE"
    /\ w[Len(w)].op = "tables.delete" /\ w[Len(w)].table = temporary_table_id(UploadTable)

NoInsertIntoPartition ==
    \A i \in DOMAIN up_log :
        up_log[i].op = "tabledata.insertAll" => up_log[i].table # UploadTable

\* On a Bigquery instance the requests of a replacement that returns are as
\* the claim has them, and no insertAll addresses the partition.
ReplaceStagesOnBigquery ==
    (ReplaceCase /\ up_args.klass = "Bigquery") =>
        /\ NoInsertIntoPartition
        /\ up_pc = "returned" => StagedInOrder(Writes)

\* ... and the partition holds the rows the overwriting job read.
ReplaceKeepsWhatJobRead ==
    (ReplaceCase /\ up_args.klass = "Bigquery" /\ up_pc = "returned") =>
        Held(up_tables[UploadRoot]) = Writes[Len(Writes) - 1].seen

\* C9: when an upload with if_exists='replace' to a partition that held rows,
\* of a partitioned table, has returned, its write requests are the creation
\* of the temporary table, insertAll requests that carry the whole dataframe
\* into the temporary table, one query job with destinationTable the partition
\* and writeDisposition WRITE_TRUNCATE, and the deletion of the temporary
\* table, in this order, and the partition holds exactly the rows of the
\* dataframe; at no time has an insertAll request addressed the partition.
C9_PartitionReplace ==
    ReplaceCase =>
        /\ NoInsertIntoPartition
        /\ up_pc = "returned" =>
              /\ StagedInOrder(Writes)
              /\ Held(up_tables[UploadRoot]) = SeqRange(Frame1toN)

\* a replacement on a Bigquery instance has returned, the overwriting job
\* having read the temporary table before its rows were visible
ReplaceLosesRows ==
    /\ ReplaceCase /\ up_args.klass = "Bigquery" /\ up_pc = "returned"
    /\ up_args.rows > 0
    /\ Held(up_tables[UploadRoot]) = {}

\* a replacement on a BigqueryJupyter instance has taken the row count from
\* the cache and streamed the dataframe into the partition, beside the rows
\* it held
C9_StreamedIntoPartition ==
    /\ ReplaceCase /\ up_args.klass = "BigqueryJupyter" /\ up_pc = "returned"
    /\ ~NoInsertIntoPartition
    /\ 0 \in Held(up_tables[UploadRoot])

\* the destination names a partition of a table that was there, partitioned,
\* when the call was made
PartitionCase ==
    /\ up_args # <<>>
    /\ up_args.if_exists \in {"fail", "replace", "append"}
    /\ str_in(<<".">>, up_args.destination_table)
    /\ contains_partition_decorator(UploadTable)
    /\ UploadRoot \in DOMAIN up_before
    /\ up_before[UploadRoot].partitioned

\* ... and the partition held at least one row
FullPartitionCase == PartitionCase /\ up_before[UploadRoot].rows # {}

\* ... and the partition held no row
EmptyPartitionCase == PartitionCase /\ Held(up_before[UploadRoot]) = {}

Ended == up_pc \in {"returned", "raised"}

\* what upload raises when a request to the remote fails
RequestFailures ==
    {"AccessDenied", "GenericGBQException", "InvalidPageToken", "QueryTimeout",
     "StreamingInsertError"}

\* the call ended because a request to the remote failed
RequestFailed == up_pc = "raised" /\ up_outcome[1] \in RequestFailures

\* On a Bigquery instance an upload with if_exists='fail' to a partition that
\* held rows issues no write and, its requests answered, raises
\* TableCreationError.
FailOnFullPartitionOnBigquery ==
    (FullPartitionCase /\ up_args.if_exists = "fail" /\ up_args.klass = "Bigquery") =>
        /\ Writes = <<>>
        /\ (Ended /\ ~RequestFailed) => up_outcome = <<"TableCreationError">>

\* C12: an upload with if_exists='fail' to a '$'-decorated destination whose
\* partition held at least one row issues no table creation, table deletion,
\* streaming insert or overwrite job, and when it has ended, its requests
\* answered, it has raised TableCreationError.
C12_FailOnFullPartition ==
    (FullPartitionCase /\ up_args.if_exists = "fail") =>
        /\ Writes = <<>>
        /\ (Ended /\ ~RequestFailed) => up_outcome = <<"TableCreationError">>

\* an upload with if_exists='fail' on a BigqueryJupyter instance has taken the
\* row count 0 from the cache, streamed the dataframe into the partition that
\* held a row, and returned
C12_FailStreamedIntoPartition ==
    /\ FullPartitionCase /\ up_args.if_exists = "fail"
    /\ up_args.klass = "BigqueryJupyter"
    /\ up_pc = "returned"
    /\ up_args.rows > 0
    /\ Held(up_tables[UploadRoot]) = {0} \cup SeqRange(Frame1toN)

\* every write of the call is an insertAll request that addresses the
\* destination itself
StreamsIntoDestinationOnly ==
    \A i \in DOMAIN Writes :
        Writes[i].op = "tabledata.insertAll" /\ Writes[i].table = UploadTable

\* the call has returned, having streamed the dataframe, whole and in order
StreamedWholeFrame == up_pc = "returned" => RowsOf(Writes) = Frame1toN

\* On a Bigquery instance an upload to a partition that held no row streams
\* into the partition whatever if_exists says.
EmptyPartitionOnBigquery ==
    (EmptyPartitionCase /\ up_args.klass = "Bigquery") =>
        /\ StreamsIntoDestinationOnly
        /\ up_outcome # <<"TableCreationError">>
        /\ StreamedWholeFrame
        /\ up_pc = "returned" => Held(up_tables[UploadRoot]) = SeqRange(Frame1toN)

\* C13: an upload to a '$'-decorated destination whose partition held no row
\* writes by insertAll requests into the partition only, whatever if_exists
\* says (no temporary table, no overwriting job), never raises
\* TableCreationError, and when it has returned the partition holds exactly
\* the rows of the dataframe.
C13_EmptyPartitionStreams ==
    EmptyPartitionCase =>
        /\ StreamsIntoDestinationOnly
        /\ up_outcome # <<"TableCreationError">>
        /\ StreamedWholeFrame
        /\ up_pc = "returned" => Held(up_tables[UploadRoot]) = SeqRange(Frame1toN)

\* an upload with if_exists='fail' on a BigqueryJupyter instance has taken a
\* row count above 0 from the cache and refused the empty partition
C13_EmptyPartitionRefused ==
    /\ EmptyPartitionCase /\ up_args.if_exists = "fail"
    /\ up_args.klass = "BigqueryJupyter"
    /\ up_outcome = <<"TableCreationError">>
    /\ Held(up_tables[UploadRoot]) = {}

\* the destination names, without decorator, a table that was there when the
\* call was made
ExistingTableCase ==
    /\ up_args # <<>>
    /\ up_args.if_exists \in {"fail", "replace", "append"}
    /\ str_in(<<".">>, up_args.destination_table)
    /\ ~contains_partition_decorator(UploadTable)
    /\ UploadTable \in DOMAIN up_before

\* the calls the schema gate is for
GateCase ==
    \/ ExistingTableCase /\ up_args.if_exists = "append"
    \/ FullPartitionCase /\ up_args.if_exists \in {"append", "replace"}

\* the dataframe's schema is a subset of the schema the table had
FrameFits == schema_is_subset(up_before[UploadRoot].schema, up_args.schema)

SchemaGate ==
    /\ ~FrameFits =>
          /\ Writes = <<>>
          /\ (Ended /\ ~RequestFailed) => up_outcome = <<"InvalidSchema">>
    /\ (FrameFits /\ up_args.if_exists = "append" /\ up_pc = "returned") =>
          Held(up_tables[UploadRoot]) = Held(up_before[UploadRoot]) \cup SeqRange(Frame1toN)

\* On a Bigquery instance the gate is as C14 has it.
SchemaGateOnBigquery == (GateCase /\ up_args.klass = "Bigquery") => SchemaGate

\* For a destination without decorator the gate is as C14 has it on every
\* instance.
SchemaGateOfTable == (ExistingTableCase /\ up_args.if_exists = "append") => SchemaGate

\* C14: in an append to an existing non-partitioned table, and in an append or
\* a replace to a partition that held rows, a dataframe whose schema is not a
\* subset of the table's schema makes the call raise InvalidSchema without any
\* write request (table creation, table deletion, streaming insert,
\* overwriting job); with a schema that is a subset, an append that has
\* returned has added the dataframe's rows to the rows the destination held.
C14_SchemaGate == GateCase => SchemaGate

\* an append on a BigqueryJupyter instance to a partition that held a row,
\* with a dataframe whose schema does not fit: the row count 0 came from the
\* cache and an insertAll request was sent
C14_UngatedInsert ==
    /\ FullPartitionCase /\ up_args.if_exists = "append"
    /\ up_args.klass = "BigqueryJupyter"
    /\ ~FrameFits
    /\ Len(Writes) >= 1
    /\ Writes[1].op = "tabledata.insertAll"

\* an append on a Bigquery instance that the gate has let through has returned
GateLetsAppendThrough ==
    /\ GateCase /\ up_args.klass = "Bigquery" /\ up_args.if_exists = "append"
    /\ FrameFits /\ up_pc = "returned" /\ up_args.rows > 0
    /\ 0 \in Held(up_tables[UploadRoot])

\* the destination bears a '$' decorator
DecoratedCase ==
    /\ up_args # <<>>
    /\ up_args.if_exists \in {"fail", "replace", "append"}
    /\ str_in(<<".">>, up_args.destination_table)
    /\ contains_partition_decorator(UploadTable)

\* no request of the call has made or deleted the root table
RootTableUntouched ==
    /\ \A i \in DOMAIN up_log :
          up_log[i].op \in {"tables.insert", "tables.delete"} => up_log[i].table # UploadRoot
    /\ UploadRoot \in DOMAIN up_tables <=> UploadRoot \in DOMAIN up_before

\* the call has posted no job and sent no write request
NoJobNoWrite ==
    /\ Writes = <<>>
    /\ \A i \in DOMAIN up_log : up_log[i].op # "jobs.insert"

\* C15: an upload to a '$'-decorated destination never makes or deletes the
\* root table; where the root table is missing the call raises
\* NotFoundException, where it is there without timePartitioning the call
\* raises InvalidSchema, and in both cases it posts no query job and sends no
\* write request.
C15_RootTableGuard ==
    DecoratedCase =>
        /\ RootTableUntouched
        /\ UploadRoot \notin DOMAIN up_before =>
              /\ NoJobNoWrite
              /\ Ended => up_outcome = <<"NotFoundException">>
        /\ (UploadRoot \in DOMAIN up_before /\ ~up_before[UploadRoot].partitioned) =>
              /\ NoJobNoWrite
              /\ Ended => up_outcome = <<"InvalidSchema">>

\* an upload to a partition of a table that is not partitioned has been
\* refused after the look at the table
C15_Witness ==
    /\ DecoratedCase
    /\ UploadRoot \in DOMAIN up_before /\ ~up_before[UploadRoot].partitioned
    /\ up_outcome = <<"InvalidSchema">>
    /\ Len(up_log) = 2

\* C16: an upload with if_exists='fail' to a destination without decorator
\* that exists sends no table deletion, table creation or streaming insert,
\* leaves the table and its rows as they were, and raises TableCreationError.
C16_FailOnExistingTable ==
    (ExistingTableCase /\ up_args.if_exists = "fail") =>
        /\ Writes = <<>>
        /\ up_tables = up_before
        /\ Ended => up_outcome = <<"TableCreationError">>

\* the call was refused on a table that holds a row
C16_Witness ==
    /\ ExistingTableCase /\ up_args.if_exists = "fail"
    /\ up_outcome = <<"TableCreationError">>
    /\ up_args.rows > 0
    /\ up_tables[UploadTable].rows = {0}

\* the destination names, without decorator, a table that was not there when
\* the call was made
AbsentTableCase ==
    /\ up_args # <<>>
    /\ up_args.if_exists \in {"fail", "replace", "append"}
    /\ str_in(<<".">>, up_args.destination_table)
    /\ ~contains_partition_decorator(UploadTable)
    /\ UploadTable \notin DOMAIN up_before

\* the writes of the call: at most one making of the dataset, then one making
\* of the destination, then insertAll requests into the destination
CreatedBeforeStreaming ==
    \A i \in DOMAIN Writes :
        /\ Writes[i].op \in {"datasets.insert", "tables.insert", "tabledata.insertAll"}
        /\ Writes[i].op = "datasets.insert" => i = 1
        /\ Writes[i].op = "tables.insert" =>
              /\ Writes[i].table = UploadTable
              /\ \A j \in 1..(i - 1) : Writes[j].op = "datasets.insert"
        /\ Writes[i].op = "tabledata.insertAll" =>
              /\ Writes[i].table = UploadTable
              /\ \E j \in 1..(i - 1) : Writes[j].op = "tables.insert"

\* a table made under the destination's name has the dataframe's schema
MadeWithFrameSchema ==
    UploadTable \in DOMAIN up_tables =>
        /\ up_tables[UploadTable].schema = up_args.schema
        /\ ~up_tables[UploadTable].partitioned

HoldsUploadedRows ==
    up_pc = "returned" =>
        /\ UploadTable \in DOMAIN up_tables
        /\ RowsOf(SelectSeq(Writes, LAMBDA r : r.op = "tabledata.insertAll")) = Frame1toN
        /\ Held(up_tables[UploadTable]) = SeqRange(Frame1toN)

\* the step that makes the table makes the dataset when it is absent
DatasetMadeWhenAbsent ==
    (AbsentTableCase /\ up_pc = "create" /\ up_pc' = "stream") =>
        /\ up_dataset'
        /\ ~up_dataset =>
              \E i \in (Len(up_log) + 1)..Len(up_log') : up_log'[i].op = "datasets.insert"

\* C17: an upload to a destination without decorator that does not exist
\* makes the table, with the schema generated from the dataframe, before its
\* first insertAll request, and makes the dataset before that when the dataset
\* is absent, whatever if_exists says; when the call has returned the table
\* holds exactly the rows of the dataframe.
C17_CreatesThenStreams ==
    /\ [](AbsentTableCase =>
            CreatedBeforeStreaming /\ MadeWithFrameSchema /\ HoldsUploadedRows)
    /\ [][DatasetMadeWhenAbsent]_vars

\* an upload with if_exists='fail' has made dataset and table, streamed two
\* rows and returned
C17_Witness ==
    /\ AbsentTableCase /\ up_args.if_exists = "fail"
    /\ up_pc = "returned"
    /\ up_args.rows = 2
    /\ Len(Writes) >= 3
    /\ Writes[1].op = "datasets.insert"
    /\ Writes[2].op = "tables.insert"
    /\ Held(up_tables[UploadTable]) = {1, 2}

(***************************************************************************)
(* Jobs.copy (jobs.py lines 14-111), request by request.  The remote holds *)
(* the job; a job resource carries the status the job has when the remote  *)
(* answers.  A job goes from PENDING to RUNNING to DONE, and a job that is *)
(* DONE has failed or has not.                                             *)
(***************************************************************************)
JobStatuses ==
    { [state |-> st, errorResult |-> FALSE] : st \in {"PENDING", "RUNNING", "DONE"} }
        \cup { [state |-> "DONE", errorResult |-> TRUE] }

\* the statuses a job of status st can have later on
LaterStatuses(st) ==
    { n \in JobStatuses :
        \/ st.state = "PENDING" /\ n.state \in {"RUNNING", "DONE"}
        \/ st.state = "RUNNING" /\ n.state = "DONE" }

JobResource(st) == [jobReference |-> [jobId |-> "job_1"], status |-> st]

\* kwargs.get('configuration') of a call of Jobs.copy
JobCopyOverlays ==
    CopyOverlays
    \cup { <<[copy |-> [destinationTable |-> "other"]]>>,
           <<[copy |-> [destinationTable |-> "other", sourceTable |-> "other",
                        writeDisposition |-> "WRITE_TRUNCATE"]]>>,
           <<[copy |-> [writeDisposition |-> "WRITE_APPEND",
                        createDisposition |-> "CREATE_NEVER"]]>> }

InitCopy ==
    /\ copy_pc = "call"
    /\ copy_overlay \in JobCopyOverlays
    /\ job_reply = <<>>
    /\ job_state = NoJob
    /\ copy_requests = <<>>
    /\ copy_outcome = <<>>
    /\ IdleBesideCopy

CopyRaise(kind, message) ==
    /\ copy_pc' = "raised"
    /\ copy_outcome' = <<kind, message>>

CopyRequest(op, body) == [op |-> op, body |-> body]

\* lines 60-73: the overlay is refused
JobsCopyRejects ==
    /\ copy_pc = "call"
    /\ JobsCopyCheck(copy_overlay).error # ""
    /\ CopyRaise("ValueError", JobsCopyCheck(copy_overlay).error)
    /\ UNCHANGED <<copy_overlay, job_reply, job_state, copy_requests>>
    /\ UNCHANGED beside_copy

\* lines 80-84 and 96-97: job_collection.insert(...).execute() answers
JobsCopySubmit ==
    /\ copy_pc = "call"
    /\ JobsCopyCheck(copy_overlay).error = ""
    /\ copy_requests' = Append(copy_requests,
                               CopyRequest("jobs.insert", JobsCopyCheck(copy_overlay).config))
    /\ job_state' \in JobStatuses
    /\ job_reply' = <<JobResource(job_state')>>
    /\ copy_pc' = "loop"
    /\ UNCHANGED <<copy_overlay, copy_outcome>>
    /\ UNCHANGED beside_copy

\* lines 85-94: the submission fails; the remote has taken the job or has not
JobsCopySubmitFails ==
    /\ copy_pc = "call"
    /\ JobsCopyCheck(copy_overlay).error = ""
    /\ copy_requests' = Append(copy_requests,
                               CopyRequest("jobs.insert", JobsCopyCheck(copy_overlay).config))
    /\ job_state' \in {NoJob, [state |-> "PENDING", errorResult |-> FALSE]}
    /\ \E kind \in {"AccessDenied", "GenericGBQException"} :
        CopyRaise(kind, "") /\ Answered(kind = "GenericGBQException")
    /\ UNCHANGED <<copy_overlay, job_reply>>
    /\ UNCHANGED layers_beside_copy

\* A mutant of copy_loop_cond: the loop goes on until the job is DONE.
copy_loop_until_done(reply) == reply["status"]["state"] # "DONE"

\* line 100: the condition of the while loop, on the state of job_reply
copy_loop_cond(reply) == reply["status"]["state"] = "RUNNING"

\* lines 100-108: one more turn of the loop, job_collection.get(...).execute()
\* answers with the job as it is
CopyPoll ==
    /\ copy_pc = "loop"
    /\ copy_loop_cond(job_reply[1])
    /\ Len(copy_requests) <= MaxPolls
    /\ copy_requests' = Append(copy_requests, CopyRequest("jobs.get", EmptyDict))
    /\ job_reply' = <<JobResource(job_state)>>
    /\ UNCHANGED <<copy_pc, copy_overlay, job_state, copy_outcome>>
    /\ UNCHANGED beside_copy

\* lines 103-108: the poll fails
CopyPollFails ==
    /\ copy_pc = "loop"
    /\ copy_loop_cond(job_reply[1])
    /\ Len(copy_requests) <= MaxPolls
    /\ copy_requests' = Append(copy_requests, CopyRequest("jobs.get", EmptyDict))
    /\ Answered(TRUE)
    /\ CopyRaise("GenericGBQException", "")
    /\ UNCHANGED <<copy_overlay, job_reply, job_state>>
    /\ UNCHANGED layers_beside_copy

\* lines 100 and 110-111: the loop ends and copy returns
CopyReturns ==
    /\ copy_pc = "loop"
    /\ ~copy_loop_cond(job_reply[1])
    /\ copy_pc' = "returned"
    /\ copy_outcome' = <<"return">>
    /\ UNCHANGED <<copy_overlay, job_reply, job_state, copy_requests>>
    /\ UNCHANGED beside_copy

\* The remote works on the job.
JobAdvances ==
    /\ copy_pc # "idle"
    /\ job_state' \in LaterStatuses(job_state)
    /\ UNCHANGED <<copy_pc, copy_overlay, job_reply, copy_requests, copy_outcome>>
    /\ UNCHANGED beside_copy

NextCopy ==
    \/ JobsCopyRejects
    \/ JobsCopySubmit
    \/ JobsCopySubmitFails
    \/ CopyPoll
    \/ CopyPollFails
    \/ CopyReturns
    \/ JobAdvances

SpecCopy == InitCopy /\ [][NextCopy]_vars

(***************************************************************************)
(* Claims about Jobs.copy, checked under SpecCopy.                         *)
(***************************************************************************)
CopyPolls == SelectSeq(copy_requests, LAMBDA r : r.op = "jobs.get")

\* C18: Jobs.copy returns normally only after a job resource it received, from
\* the submission or from a poll, has reported the job DONE; on every other
\* state reported (RUNNING, and also PENDING) it polls again instead of
\* returning.
C18_ReturnsOnlyWhenDone ==
    copy_outcome = <<"return">> => job_reply[1]["status"]["state"] = "DONE"

\* the submission response reported the job PENDING and copy has returned
\* without a poll, the job not being DONE
C18_ReturnedWhilePending ==
    /\ copy_outcome = <<"return">>
    /\ job_reply[1]["status"]["state"] = "PENDING"
    /\ CopyPolls = <<>>
    /\ job_state.state # "DONE"

\* Beside C18: copy never returns on a job resource that reports RUNNING.
NeverReturnsWhileRunning ==
    copy_outcome = <<"return">> => job_reply[1]["status"]["state"] # "RUNNING"

(***************************************************************************)
(* Jobs.query_async (jobs.py lines 268-337), called by its user or by      *)
(* Bigquery.query_async (bigquery.py lines 102-121) with the configuration *)
(* that method builds.                                                     *)
(***************************************************************************)
\* The configurations Bigquery.query_async hands to Jobs.query_async.
BuiltOverlays ==
    { <<build_config(o, p, d)>> : o \in ClientOverlays, p \in Priorities, d \in Dialects }

InitAsync == JobsQueryCalled({ <<>>, <<SomeQuery>> }, JobQueryOverlays \cup BuiltOverlays)

\* lines 300-317: the overlay is refused, nothing is posted
JobsQueryAsyncRejects ==
    /\ job_pc = "call"
    /\ JobsQueryCheck(job_query, job_overlay).error # ""
    /\ Raise("ValueError", JobsQueryCheck(job_query, job_overlay).error)
    /\ UNCHANGED <<job_query, job_overlay, job_config, query_reply, total_rows,
                   result_pages, seen_page_tokens, current_row, job_schema, now,
                   polls, requests, served>>
    /\ UNCHANGED beside_job

\* A mutant of JobsQueryAsyncSubmit: a job the response does not report DONE
\* is waited for, with one request for its results.
JobsQueryAsyncSubmitWaits ==
    /\ job_pc = "call"
    /\ JobsQueryCheck(job_query, job_overlay).error = ""
    /\ job_config' = JobsQueryCheck(job_query, job_overlay).config
    /\ \E id \in JobIds, st \in JobStatuses :
        /\ query_reply' = [jobReference |-> [jobId |-> id], status |-> st]
        /\ requests' = <<InsertRequest(job_config')>>
                          \o (IF st.state = "DONE" THEN <<>> ELSE <<PageRequest(0)>>)
    /\ job_pc' = "returned"
    /\ job_outcome' = <<"return", query_reply'.jobReference.jobId>>
    /\ UNCHANGED <<job_query, job_overlay, total_rows, result_pages, seen_page_tokens,
                   current_row, job_schema, now, polls, served>>
    /\ UNCHANGED beside_job

\* lines 319-337: the job is posted, the remote answers with the job resource,
\* and query_reply['jobReference']['jobId'] is returned
JobsQueryAsyncSubmit ==
    /\ job_pc = "call"
    /\ JobsQueryCheck(job_query, job_overlay).error = ""
    /\ job_config' = JobsQueryCheck(job_query, job_overlay).config
    /\ requests' = Append(requests, InsertRequest(job_config'))
    /\ \E id \in JobIds, st \in JobStatuses :
        query_reply' = [jobReference |-> [jobId |-> id], status |-> st]
    /\ job_pc' = "returned"
    /\ job_outcome' = <<"return", query_reply'.jobReference.jobId>>
    /\ UNCHANGED <<job_query, job_overlay, total_rows, result_pages, seen_page_tokens,
                   current_row, job_schema, now, polls, served>>
    /\ UNCHANGED beside_job

\* lines 323-335: the post fails
JobsQueryAsyncSubmitFails ==
    /\ job_pc = "call"
    /\ JobsQueryCheck(job_query, job_overlay).error = ""
    /\ job_config' = JobsQueryCheck(job_query, job_overlay).config
    /\ requests' = Append(requests, InsertRequest(job_config'))
    /\ \E kind \in {"AccessDenied", "GenericGBQException"} :
        Raise(kind, "") /\ Answered(kind = "GenericGBQException")
    /\ UNCHANGED <<job_query, job_overlay, query_reply, total_rows, result_pages,
                   seen_page_tokens, current_row, job_schema, now, polls, served>>
    /\ UNCHANGED layers_beside_job

NextAsync ==
    \/ JobsQueryAsyncRejects
    \/ JobsQueryAsyncSubmit
    \/ JobsQueryAsyncSubmitFails

SpecAsync == InitAsync /\ [][NextAsync]_vars

MaxErrorRows == 2

MaxRowErrors == 2

ErrorReasons == {"invalid", "stopped"}

RowErrors == UNION { [1..n -> ErrorReasons] : n \in 1..MaxRowErrors }

InsertErrorEntries == [index : 0..(MaxErrorRows - 1), errors : RowErrors]

InsertErrors == UNION { [1..n -> InsertErrorEntries] : n \in 1..MaxErrorRows }

\* 'Error at Row: {0}, Reason: {1}, Location: {2}, Message: {3}': the text,
\* told by the row and the error it speaks of
error_message(row, error) == <<row, error>>

InitErrors ==
    /\ verbose \in BOOLEAN
    /\ insert_errors \in InsertErrors
    /\ err_pc = "loop"
    /\ err_row = 1
    /\ err_error = 1
    /\ printed = <<>>
    /\ err_outcome = <<>>
    /\ IdleBesideErrors

\* the loops move on to the next error, or past the last row
NextError ==
    IF err_error < Len(insert_errors[err_row].errors)
    THEN err_row' = err_row /\ err_error' = err_error + 1
    ELSE err_row' = err_row + 1 /\ err_error' = 1

CurrentMessage ==
    error_message(insert_errors[err_row].index, insert_errors[err_row].errors[err_error])

\* lines 375-377: verbose is set, the message is printed
ReportError ==
    /\ err_pc = "loop"
    /\ err_row <= Len(insert_errors)
    /\ verbose
    /\ printed' = Append(printed, CurrentMessage)
    /\ NextError
    /\ UNCHANGED <<verbose, insert_errors, err_pc, err_outcome>>
    /\ UNCHANGED beside_errors

\* lines 378-381: verbose is not set, the error is raised
RaiseAtError ==
    /\ err_pc = "loop"
    /\ err_row <= Len(insert_errors)
    /\ ~verbose
    /\ err_pc' = "raised"
    /\ err_outcome' = <<"StreamingInsertError", <<CurrentMessage>>>>
    /\ UNCHANGED <<verbose, insert_errors, err_row, err_error, printed>>
    /\ UNCHANGED beside_errors

\* A mutant of RaiseAfterLoop: the loops over, the method returns.
ReturnAfterLoop ==
    /\ err_pc = "loop"
    /\ err_row > Len(insert_errors)
    /\ err_pc' = "returned"
    /\ err_outcome' = <<"return">>
    /\ UNCHANGED <<verbose, insert_errors, err_row, err_error, printed>>
    /\ UNCHANGED beside_errors

\* line 383: raise StreamingInsertError, after the loops
RaiseAfterLoop ==
    /\ err_pc = "loop"
    /\ err_row > Len(insert_errors)
    /\ err_pc' = "raised"
    /\ err_outcome' = <<"StreamingInsertError", <<>>>>
    /\ UNCHANGED <<verbose, insert_errors, err_row, err_error, printed>>
    /\ UNCHANGED beside_errors

NextErrors ==
    \/ ReportError
    \/ RaiseAtError
    \/ RaiseAfterLoop

SpecErrors == InitErrors /\ [][NextErrors]_vars

(***************************************************************************)
(* Claims about process_insert_errors, checked under SpecErrors.           *)
(***************************************************************************)
RECURSIVE MessagesOf(_)
\* the messages of all errors of all rows, in order
MessagesOf(entries) ==
    IF entries = <<>> THEN <<>>
    ELSE [k \in 1..Len(entries[1].errors) |->
             error_message(entries[1].index, entries[1].errors[k])]
         \o MessagesOf(Tail(entries))

ErrorsEnded == err_pc \in {"returned", "raised"}

\* with verbose not set the first error is raised at once, nothing printed
FirstErrorRaised ==
    /\ printed = <<>>
    /\ err_outcome = <<"StreamingInsertError", <<MessagesOf(insert_errors)[1]>>>>

\* C20 as stated: with verbose reporting enabled every failing row is
\* reported and no exception is raised for the batch; with verbose reporting
\* disabled the first reported row error raises StreamingInsertError at once.
C20_AsStated ==
    ErrorsEnded =>
        IF verbose
        THEN printed = MessagesOf(insert_errors) /\ err_pc = "returned"
        ELSE FirstErrorRaised

\* C20, amended: with verbose reporting enabled every error of every failing
\* row is reported, in order, and then StreamingInsertError is raised for the
\* batch, without a message; with verbose reporting disabled the first
\* reported row error raises StreamingInsertError at once.
C20_InsertErrorsRaise ==
    ErrorsEnded =>
        IF verbose
        THEN /\ printed = MessagesOf(insert_errors)
             /\ err_outcome = <<"StreamingInsertError", <<>>>>
        ELSE FirstErrorRaised

\* with verbose set, the errors of two rows were all reported and the
\* exception raised after them
C20_Witness ==
    /\ verbose
    /\ Len(insert_errors) = 2
    /\ Len(printed) >= 3
    /\ printed = MessagesOf(insert_errors)
    /\ err_outcome = <<"StreamingInsertError", <<>>>>

(***************************************************************************)
(* Two calls of BigqueryJupyter.query (or query_batch) on one instance,    *)
(* the second made when the first has ended.  The cache files stay; what   *)
(* the remote answers to a job is free at every call.                      *)
(***************************************************************************)
CacheTexts == { SomeQuery, <<"a", "$", "b">> }

CacheCalls ==
    [klass : {"BigqueryJupyter"}, method : {"query"},
     query : CacheTexts, dialect : {"standard", "sql"}, priority : {"INTERACTIVE"},
     strict : BOOLEAN, local_cache : BOOLEAN, overlay : { <<>> }]
    \cup
    [klass : {"BigqueryJupyter"}, method : {"query_batch"},
     query : CacheTexts, dialect : {"standard"}, priority : {"BATCH"},
     strict : BOOLEAN, local_cache : {TRUE}, overlay : { <<>> }]

InitCache ==
    /\ cl_args \in CacheCalls
    /\ cl_call = FrameOf(cl_args)
    /\ cl_pc = "call"
    /\ cl_config = <<>>
    /\ cl_cache \in { EmptyDict, [k \in {cache_key(cl_args.query)} |-> CachedFrame] }
    /\ cl_log = <<>>
    /\ cl_outcome = <<>>
    /\ IdleBesideClient

\* the entry of the log that tells where the first call ended, and how
CallEnded(args, outcome) ==
    [op |-> "call.ended", key |-> <<>>, body |-> [args |-> args, outcome |-> outcome]]

FirstCallEnded == \E i \in DOMAIN cl_log : cl_log[i].op = "call.ended"

\* The first call has ended and the second call is made.
CallAgain ==
    /\ cl_pc \in {"returned", "raised"}
    /\ ~FirstCallEnded
    /\ cl_log' = Append(cl_log, CallEnded(cl_args, cl_outcome))
    /\ cl_args' \in CacheCalls
    /\ cl_call' = FrameOf(cl_args')
    /\ cl_pc' = "call"
    /\ cl_config' = <<>>
    /\ cl_outcome' = <<>>
    /\ UNCHANGED cl_cache
    /\ UNCHANGED beside_client

NextCache ==
    \/ QueryBatch
    \/ StrictGuardRejects
    \/ StrictGuardPasses
    \/ JupyterCacheHit
    \/ JupyterCacheMiss
    \/ JupyterNoCache
    \/ QueryArgsInvalid
    \/ QueryBuildConfig
    \/ JobsRaises
    \/ JobsReturns
    \/ CallAgain

SpecCache == InitCache /\ [][NextCache]_vars

(***************************************************************************)
(* Claims about the local result cache, checked under SpecCache.           *)
(***************************************************************************)
FirstCallEnd == CHOOSE i \in DOMAIN cl_log : cl_log[i].op = "call.ended"

FirstCall == cl_log[FirstCallEnd].body

\* the requests and cache lookups of the call now running or just ended
CurrentLog ==
    IF FirstCallEnded THEN SubSeq(cl_log, FirstCallEnd + 1, Len(cl_log)) ELSE cl_log

Issued(op) == \E i \in DOMAIN CurrentLog : CurrentLog[i].op = op

\* the second call has local_cache enabled and the text of a first call that
\* had local_cache enabled and returned
SecondCallOfSameText ==
    /\ FirstCallEnded
    /\ FirstCall.args.local_cache
    /\ FirstCall.outcome[1] = "return"
    /\ cl_args.local_cache
    /\ cl_args.query = FirstCall.args.query

CacheServesSecondCall ==
    SecondCallOfSameText =>
        /\ ~Issued("jobs.insert")
        /\ cl_pc = "returned" => cl_outcome = FirstCall.outcome
        /\ cl_pc = "raised" => StrictModeError

NoCacheRunsRemotely ==
    (cl_args # <<>> /\ ~cl_args.local_cache) =>
        /\ ~Issued("cache.exists")
        /\ cl_pc = "returned" => Issued("jobs.insert")

NoCacheLeavesCache == (cl_args # <<>> /\ ~cl_args.local_cache) => cl_cache' = cl_cache

\* C21: with local_cache enabled, a second call with the query text of a first
\* call that returned posts no job and, when it returns, returns the result of
\* the first call, whatever the remote would answer now (it is refused only
\* by the strict guard); with local_cache=False a call never looks into the
\* cache, never writes it, and returns only after posting a job.
C21_LocalCache ==
    /\ [](CacheServesSecondCall /\ NoCacheRunsRemotely)
    /\ [][NoCacheLeavesCache]_vars

\* the first call ran the query remotely and returned two pages; the second
\* call returned the same frame after one look into the cache
C21_Witness ==
    /\ SecondCallOfSameText
    /\ FirstCall.outcome = <<"return", <<2, 1>>>>
    /\ cl_pc = "returned"
    /\ cl_outcome = FirstCall.outcome
    /\ Len(CurrentLog) = 1
    /\ CurrentLog[1].op = "cache.exists"

(***************************************************************************)
(* Tables.exists (tables.py, lines 296-328) and Datasets.exists            *)
(* (datasets.py, lines 16-39): one remote get, whose HTTP answer decides   *)
(* between True, False and an exception.  The remote is free to answer     *)
(* with any status; an error answer carries the error object of the API,   *)
(* which process_http_error (gbqconnector.py, lines 345-361) reads.        *)
(***************************************************************************)

\* the 'errors' member of the error object: <<>> when absent, else <<list>>
HttpErrorLists ==
    { <<>>, << <<>> >>,
      << <<[reason |-> "notFound", message |-> "m1"]>> >>,
      << <<[reason |-> "accessDenied", message |-> "m2"],
           [reason |-> "backendError", message |-> "m3"]>> >> }

HttpErrorStatuses == {400, 401, 403, 404, 409, 500, 503}

\* the answers of a get: success, or an HttpError with its status and body
HttpReplies ==
    {[status |-> 200, errors |-> <<>>]}
    \cup [status : HttpErrorStatuses, errors : HttpErrorLists]

ExistsCalls ==
    [klass : {"Tables"}, dataset_id : {<<"d">>},
     table_id : {<<"t">>, <<"t", "$", "1">>, <<"u", "$", "2", "$", "3">>}]
    \cup [klass : {"Datasets"}, dataset_id : {<<"d">>, <<"e">>}, table_id : {<<>>}]

InitExists ==
    /\ IdleBesideResource
    /\ rs_pc = "call"
    /\ rs_call \in ExistsCalls
    /\ rs_reply = <<>>
    /\ rs_requests = <<>>
    /\ rs_outcome = <<>>

\* tables.py lines 313-322 and datasets.py lines 31-33: the request
ExistsRequest(call) ==
    IF call.klass = "Tables"
    THEN [op |-> "tables.get", datasetId |-> call.dataset_id,
          tableId |-> root_table_id(call.table_id)]
    ELSE [op |-> "datasets.get", datasetId |-> call.dataset_id, tableId |-> <<>>]

\* gbqconnector.py lines 350-361: the exception made of an HttpError
process_http_error(ex) ==
    IF ex.errors # <<>> /\ ex.errors[1] # <<>>
    THEN <<"GenericGBQException",
           <<"Reason", ex.errors[1][1].reason, "Message", ex.errors[1][1].message>> >>
    ELSE <<"GenericGBQException", ex.errors>>

\* "every HTTP error means absent"
not_found_any_error(ex) == ex.status # 200

\* tables.py line 325, datasets.py line 36: ex.resp.status == 404
not_found(ex) == ex.status = 404

\* The get is issued and answered.
ExistsGet ==
    /\ rs_pc = "call"
    /\ \E reply \in HttpReplies : rs_reply' = <<reply>>
    /\ rs_requests' = Append(rs_requests, ExistsRequest(rs_call))
    /\ rs_pc' = "answered"
    /\ UNCHANGED <<rs_call, rs_outcome>>
    /\ UNCHANGED beside_resource

\* tables.py line 323, datasets.py line 34: return True
ExistsReturnsTrue ==
    /\ rs_pc = "answered"
    /\ rs_reply[1].status = 200
    /\ rs_pc' = "returned"
    /\ rs_outcome' = <<"return", TRUE>>
    /\ UNCHANGED <<rs_call, rs_reply, rs_requests>>
    /\ UNCHANGED beside_resource

\* tables.py lines 324-326, datasets.py lines 35-37: return False
ExistsReturnsFalse ==
    /\ rs_pc = "answered"
    /\ rs_reply[1].status # 200
    /\ not_found(rs_reply[1])
    /\ rs_pc' = "returned"
    /\ rs_outcome' = <<"return", FALSE>>
    /\ UNCHANGED <<rs_call, rs_reply, rs_requests>>
    /\ UNCHANGED beside_resource

\* tables.py lines 327-328, datasets.py lines 38-39: process_http_error
ExistsRaises ==
    /\ rs_pc = "answered"
    /\ rs_reply[1].status # 200
    /\ ~not_found(rs_reply[1])
    /\ rs_pc' = "raised"
    /\ rs_outcome' = process_http_error(rs_reply[1])
    /\ UNCHANGED <<rs_call, rs_reply, rs_requests>>
    /\ UNCHANGED beside_resource

NextExists ==
    \/ ExistsGet
    \/ ExistsReturnsTrue
    \/ ExistsReturnsFalse
    \/ ExistsRaises

SpecExists == InitExists /\ [][NextExists]_vars

ExistsEnded == rs_pc \in {"returned", "raised"}

ExistsAnswer == rs_reply[1].status

\* C22: Tables.exists and Datasets.exists return true when the remote get
\* succeeds, return false, raising nothing, when it answers HTTP 404, and
\* raise GenericGBQException for every other HTTP error status; false is
\* never returned for an error other than 404.
C22_ExistsByStatus ==
    ExistsEnded =>
        /\ rs_requests = <<ExistsRequest(rs_call)>>
        /\ ExistsAnswer = 200 => rs_pc = "returned" /\ rs_outcome = <<"return", TRUE>>
        /\ ExistsAnswer = 404 => rs_pc = "returned" /\ rs_outcome = <<"return", FALSE>>
        /\ ExistsAnswer \notin {200, 404} =>
               rs_pc = "raised" /\ rs_outcome[1] = "GenericGBQException"

\* an existence check of a decorated table ended in GenericGBQException on
\* a server error
C22_Witness ==
    /\ rs_pc = "raised"
    /\ rs_call.klass = "Tables"
    /\ contains_partition_decorator(rs_call.table_id)
    /\ ExistsAnswer = 500
    /\ rs_outcome[1] = "GenericGBQException"

(***************************************************************************)
(* The submission of a query job by Jobs.query (jobs.py lines 140-186) and *)
(* by Jobs.query_async (lines 295-335), up to the answer to the post, over *)
(* overlays that name a destination table, set allowLargeResults or carry  *)
(* a query text of their own.                                              *)
(***************************************************************************)
OtherQuery == <<"o">>

SubmitOverlays ==
    JobQueryOverlays
    \cup { <<[query |-> [destinationTable |-> "dest"]]>>,
           <<[query |-> [allowLargeResults |-> FALSE]]>>,
           <<[query |-> [destinationTable |-> "dest", allowLargeResults |-> FALSE]]>>,
           <<[query |-> [destinationTable |-> "dest", allowLargeResults |-> TRUE]]>>,
           <<[query |-> [query |-> <<OtherQuery>>]]>>,
           <<[query |-> [query |-> <<OtherQuery>>, destinationTable |-> "dest"]]>> }

InitSubmit == JobsQueryCalled({ <<>>, <<SomeQuery>> }, SubmitOverlays)

NextSubmit ==
    \/ JobsQueryRejects
    \/ JobsQuerySubmit
    \/ JobsQuerySubmitFails
    \/ JobsQueryAsyncRejects
    \/ JobsQueryAsyncSubmit
    \/ JobsQueryAsyncSubmitFails

SpecSubmit == InitSubmit /\ [][NextSubmit]_vars

\* the bodies of the jobs.insert requests issued so far
Posted == { requests[i].body : i \in { j \in DOMAIN requests : requests[j].op = "jobs.insert" } }

\* the call was answered by the job resource query_async reads
AsyncAnswered == job_pc = "returned" /\ "jobReference" \in DOMAIN query_reply

\* C23: every query job posted by Jobs.query or Jobs.query_async whose merged
\* configuration holds destinationTable is posted with allowLargeResults true,
\* also when the overlay sets allowLargeResults to false.
C23_DestinationForcesLargeResults ==
    \A body \in Posted :
        "destinationTable" \in DOMAIN body =>
            /\ "allowLargeResults" \in DOMAIN body
            /\ body["allowLargeResults"] = TRUE

\* Jobs.query has posted a job whose overlay names a destination table and
\* sets allowLargeResults to false
C23_Witness ==
    /\ job_pc \notin {"call", "returned", "raised"}
    /\ job_overlay = <<[query |-> [destinationTable |-> "dest", allowLargeResults |-> FALSE]]>>
    /\ Len(requests) = 1
    /\ requests[1].body["allowLargeResults"] = TRUE

(***************************************************************************)
(* Claims about the configuration of Jobs.copy, checked under SpecCopy.    *)
(***************************************************************************)
\* the 'copy' section of the overlay of the call, when it has one
CopySection == copy_overlay[1]["copy"]

HasCopySection == copy_overlay # <<>> /\ "copy" \in DOMAIN copy_overlay[1]

OverlayNamesTables ==
    /\ HasCopySection
    /\ {"destinationTable", "sourceTable"} \cap DOMAIN CopySection # {}

\* the references built from the parameters of the call
CopyParameters == [destinationTable |-> "destination", sourceTable |-> "source"]

CopyPosted ==
    { copy_requests[i].body :
        i \in { j \in DOMAIN copy_requests : copy_requests[j].op = "jobs.insert" } }

\* body is the references of the parameters with the keys of section laid over
Overlaid(body, section) ==
    /\ DOMAIN body = DOMAIN CopyParameters \cup DOMAIN section
    /\ \A k \in DOMAIN body :
        body[k] = IF k \in DOMAIN section THEN section[k] ELSE CopyParameters[k]

\* C24: a call of Jobs.copy whose overlay has a 'copy' section with
\* sourceTable or destinationTable ends in a ValueError without any remote
\* request; every configuration that is posted is the source and destination
\* references of the parameters overlaid by the keys of the overlay's 'copy'
\* section, the overlay winning per key.
C24_CopyConfiguration ==
    /\ OverlayNamesTables =>
        /\ copy_requests = <<>>
        /\ copy_pc # "call" => copy_pc = "raised" /\ copy_outcome[1] = "ValueError"
    /\ \A body \in CopyPosted :
        Overlaid(body, IF HasCopySection THEN CopySection ELSE EmptyDict)

\* a call whose overlay names a destination table was refused before any
\* request
C24_Witness ==
    /\ copy_overlay = <<[copy |-> [destinationTable |-> "other"]]>>
    /\ copy_pc = "raised"
    /\ copy_outcome[1] = "ValueError"
    /\ copy_requests = <<>>

\* the overlay of the call has a 'query' section with a query text of its own
OverlayHoldsQuery ==
    /\ job_overlay # <<>>
    /\ "query" \in DOMAIN job_overlay[1]
    /\ "query" \in DOMAIN job_overlay[1]["query"]

\* C25: Jobs.query and Jobs.query_async called with a query parameter that is
\* not None and an overlay whose 'query' section holds a 'query' key end in a
\* ValueError before any remote request; whenever a query parameter is given,
\* the query text of every posted job is that parameter, never the overlay's.
C25_QueryGivenTwice ==
    /\ job_query # <<>> /\ OverlayHoldsQuery =>
        /\ requests = <<>>
        /\ job_pc # "call" => job_pc = "raised" /\ job_outcome[1] = "ValueError"
    /\ job_query # <<>> => \A body \in Posted : body["query"] = job_query

\* a call with a query parameter and another query text in the overlay was
\* refused before any request
C25_Witness ==
    /\ job_query = <<SomeQuery>>
    /\ job_overlay = <<[query |-> [query |-> <<OtherQuery>>]]>>
    /\ job_pc = "raised"
    /\ job_outcome[1] = "ValueError"
    /\ requests = <<>>

\* the last job resource copy received reports the job DONE and failed
FailureReported ==
    /\ job_reply # <<>>
    /\ job_reply[1]["status"]["state"] = "DONE"
    /\ job_reply[1]["status"]["errorResult"]

\* C26: when a polled job has reached DONE and its job resource reports a
\* failure, the blocking call raises instead of returning normally: Jobs.copy
\* never returns on a job resource that reports DONE with an errorResult.
C26_FailedJobRaises == copy_pc = "returned" => ~FailureReported

\* copy polled a running job, was told that it is DONE and has failed, and
\* returned
C26_FailedCopyReturned ==
    /\ copy_pc = "returned"
    /\ copy_outcome = <<"return">>
    /\ Len(CopyPolls) >= 1
    /\ FailureReported

(***************************************************************************)
(* The two blocking calls, Jobs.query and Jobs.copy, side by side: a call  *)
(* of either, followed to its end, with a remote that may answer any       *)
(* request with an HttpError.                                              *)
(***************************************************************************)
InitBlocking == InitTimedQuery \/ InitCopy

NextBlocking ==
    \/ NextQuery
    \/ NextCopy

SpecBlocking == InitBlocking /\ [][NextBlocking]_vars

\* the call has ended in the exception process_http_error raises
RaisedGeneric ==
    \/ job_pc = "raised" /\ job_outcome[1] = "GenericGBQException"
    \/ copy_pc = "raised" /\ copy_outcome[1] = "GenericGBQException"

\* the remote requests of the call so far: the logged ones and the status polls
RemoteRequests == <<requests, polls, copy_requests>>

\* C27: in Jobs.query and Jobs.copy an HttpError in answer to the submission,
\* to a status poll or to a result-page request makes the call raise
\* GenericGBQException at once: the call has ended as soon as the error is
\* there, and from then on it issues no request, the failed one included.
C27_HttpErrorRaisesAtOnce ==
    /\ [](http_errors > 0 => http_errors = 1 /\ RaisedGeneric)
    /\ [][http_errors > 0 => RemoteRequests' = RemoteRequests]_vars

\* a result-page request of Jobs.query was answered with an HttpError, after
\* a page had been taken
C27_Witness ==
    /\ http_errors = 1
    /\ job_pc = "raised"
    /\ job_outcome[1] = "GenericGBQException"
    /\ Len(PageRequests) >= 1
    /\ result_pages # <<>>

(***************************************************************************)
(* Claims about the timeout and the pagination of Jobs.query, checked      *)
(* under SpecQuery.  now is the time since _start_timer, in milliseconds.  *)
(***************************************************************************)
TimeoutSet == "timeoutMs" \in DOMAIN job_config /\ job_config["timeoutMs"] # 0

\* the elapsed milliseconds to the nearest ten
NearestTen == 10 * ((now + 5) \div 10)

\* QueryTimeout comes only from the check before a status poll: no response
\* has reported jobComplete, and a timeoutMs is set
TimeoutOnlyWhilePolling ==
    TimedOut => served = <<>> /\ ~query_reply.jobComplete /\ TimeoutSet

\* QueryTimeout is raised by a step that starts before a status poll
TimeoutRaisedBeforePoll ==
    (~TimedOut /\ TimedOut') => job_pc = "poll" /\ UNCHANGED <<requests, polls>>

C29_StopsAtTotalRows ==
    Paging =>
        /\ ReportedTotal = 0 =>
            Len(served) = 1 /\ PageRequests = <<>> /\ job_pc # "raised"
        /\ \A i \in 1..Len(served) :
            (served[i].rows >= 1 /\ RowsServed(served, i) = ReportedTotal) =>
                /\ Len(served) = i
                /\ Len(PageRequests) = i - 1
                /\ job_pc # "raised"
                /\ job_pc = "returned" => Len(result_pages) = i

\* the call returned on a second response that completes the count and carries
\* the token of the first once more
C29_Witness ==
    /\ job_pc = "returned"
    /\ Len(served) = 2
    /\ RowsServed(served, 2) = ReportedTotal
    /\ served[2].rows >= 1
    /\ RepeatsToken(2)
    /\ Len(PageRequests) = 1

\* C30: in Jobs.query a response without 'rows' that arrives while the rows
\* taken are fewer than totalRows is the last one received and ends the call
\* with InvalidPageToken; and the call never returns with fewer rows than
\* totalRows.
C30_NoTruncatedResult ==
    Paging =>
        /\ \A i \in 1..Len(served) :
            (served[i].rows = -1 /\ RowsServed(served, i) < ReportedTotal) =>
                /\ Len(served) = i
                /\ Len(PageRequests) = i - 1
                /\ job_pc # "returned"
                /\ job_pc = "raised" => job_outcome[1] = "InvalidPageToken"
        /\ job_pc = "returned" => RowsHeld(result_pages) >= ReportedTotal

\* the call ended in InvalidPageToken on a second response without rows, one
\* page taken
C30_Witness ==
    /\ job_pc = "raised"
    /\ job_outcome[1] = "InvalidPageToken"
    /\ Len(served) = 2
    /\ served[2].rows = -1
    /\ Len(result_pages) = 1
    /\ RowsHeld(result_pages) < ReportedTotal

(***************************************************************************)
(* Tables.delete (tables.py, lines 68-92) and Datasets.delete              *)
(* (datasets.py, lines 110-136): the existence check of the class, then    *)
(* the delete request.  The target may vanish between the two.             *)
(***************************************************************************)
DeleteCalls ==
    [klass : {"Tables"}, dataset_id : {<<"d">>},
     table_id : {<<"t">>, <<"t", "$", "1">>}, delete_contents : {FALSE}]
    \cup [klass : {"Datasets"}, dataset_id : {<<"d">>}, table_id : {<<>>},
          delete_contents : BOOLEAN]

InitDelete ==
    /\ IdleBesideResource
    /\ rs_pc = "call"
    /\ rs_call \in DeleteCalls
    /\ rs_reply = <<>>
    /\ rs_requests = <<>>
    /\ rs_outcome = <<>>

\* tables.py lines 84-87 and datasets.py lines 128-131: the request; the
\* table id goes out as it was passed
DeleteRequest(call) ==
    IF call.klass = "Tables"
    THEN [op |-> "tables.delete", datasetId |-> call.dataset_id, tableId |-> call.table_id]
    ELSE [op |-> "datasets.delete", datasetId |-> call.dataset_id, tableId |-> <<>>]

\* an absent target is taken for deleted: the call returns
DeleteAbsentReturns ==
    /\ rs_pc = "answered"
    /\ rs_reply[1].status # 200
    /\ not_found(rs_reply[1])
    /\ rs_pc' = "returned"
    /\ rs_outcome' = <<"return", <<>> >>
    /\ UNCHANGED <<rs_call, rs_reply, rs_requests>>
    /\ UNCHANGED beside_resource

\* tables.py lines 81-82, datasets.py lines 123-125: exists answered False
DeleteAbsentRaises ==
    /\ rs_pc = "answered"
    /\ rs_reply[1].status # 200
    /\ not_found(rs_reply[1])
    /\ rs_pc' = "raised"
    /\ rs_outcome' = <<"NotFoundException", <<>> >>
    /\ UNCHANGED <<rs_call, rs_reply, rs_requests>>
    /\ UNCHANGED beside_resource

\* tables.py line 81, datasets.py line 123: exists raised
DeleteCheckRaises ==
    /\ rs_pc = "answered"
    /\ rs_reply[1].status # 200
    /\ ~not_found(rs_reply[1])
    /\ rs_pc' = "raised"
    /\ rs_outcome' = process_http_error(rs_reply[1])
    /\ UNCHANGED <<rs_call, rs_reply, rs_requests>>
    /\ UNCHANGED beside_resource

\* tables.py lines 84-88, datasets.py lines 127-131: exists answered True,
\* the delete request is issued and answered
DeleteSend ==
    /\ rs_pc = "answered"
    /\ rs_reply[1].status = 200
    /\ \E reply \in HttpReplies : rs_reply' = <<reply>>
    /\ rs_requests' = Append(rs_requests, DeleteRequest(rs_call))
    /\ rs_pc' = "deleting"
    /\ UNCHANGED <<rs_call, rs_outcome>>
    /\ UNCHANGED beside_resource

\* tables.py lines 89-91, datasets.py lines 133-135: success, or a 404 ignored
DeleteReturns ==
    /\ rs_pc = "deleting"
    /\ rs_reply[1].status \in {200, 404}
    /\ rs_pc' = "returned"
    /\ rs_outcome' = <<"return", <<>> >>
    /\ UNCHANGED <<rs_call, rs_reply, rs_requests>>
    /\ UNCHANGED beside_resource

\* tables.py lines 91-92, datasets.py lines 135-136: process_http_error
DeleteRaises ==
    /\ rs_pc = "deleting"
    /\ rs_reply[1].status \notin {200, 404}
    /\ rs_pc' = "raised"
    /\ rs_outcome' = process_http_error(rs_reply[1])
    /\ UNCHANGED <<rs_call, rs_reply, rs_requests>>
    /\ UNCHANGED beside_resource

NextDelete ==
    \/ ExistsGet
    \/ DeleteAbsentRaises
    \/ DeleteCheckRaises
    \/ DeleteSend
    \/ DeleteReturns
    \/ DeleteRaises

SpecDelete == InitDelete /\ [][NextDelete]_vars

\* the call ended on the answer to its existence check
EndedAtCheck == ExistsEnded /\ Len(rs_requests) = 1

\* the call ended on the answer to its delete request
EndedAtDelete == ExistsEnded /\ Len(rs_requests) = 2

DeleteReturned == rs_pc = "returned" /\ rs_outcome = <<"return", <<>> >>

\* the status of the answer to the delete request, once it is there
DeleteAnswer == rs_reply[1].status

\* the answers to the delete request are handled as the claim says
DeleteAnswerHandled ==
    EndedAtDelete =>
        /\ rs_requests = <<ExistsRequest(rs_call), DeleteRequest(rs_call)>>
        /\ DeleteAnswer \in {200, 404} => DeleteReturned
        /\ DeleteAnswer \notin {200, 404} =>
                rs_pc = "raised" /\ rs_outcome[1] = "GenericGBQException"

\* C31 as stated: Tables.delete and Datasets.delete return normally when the
\* target is already absent, be it that the remote answers 404 to the delete
\* request or that the target does not exist when the call starts, and raise
\* GenericGBQException for every other HTTP error status of the delete request.
C31_AsStated ==
    /\ DeleteAnswerHandled
    /\ (EndedAtCheck /\ ExistsAnswer = 404) => DeleteReturned

\* C31, amended: Tables.delete and Datasets.delete return normally when the
\* remote answers 404 to the delete request, and raise GenericGBQException for
\* every other HTTP error status of the delete request; when the target does
\* not exist as the call starts, they raise NotFoundException and issue no
\* delete request, and another HTTP error of the existence check is raised as
\* GenericGBQException.
C31_DeleteOfDeleted ==
    /\ DeleteAnswerHandled
    /\ EndedAtCheck =>
        /\ rs_requests = <<ExistsRequest(rs_call)>>
        /\ ExistsAnswer # 200
        /\ rs_pc = "raised"
        /\ rs_outcome[1] = (IF ExistsAnswer = 404 THEN "NotFoundException"
                                                  ELSE "GenericGBQException")

\* the table was there at the check and gone at the delete request: the call
\* returned
C31_Witness ==
    /\ EndedAtDelete
    /\ rs_call.klass = "Tables"
    /\ DeleteAnswer = 404
    /\ DeleteReturned

(***************************************************************************)
(* Further claims about Bigquery.upload, checked under SpecUpload.         *)
(***************************************************************************)
\* the call replaces a table without partitions that was there when the call
\* was made
ReplaceTableCase ==
    /\ ExistingTableCase
    /\ up_args.if_exists = "replace"
    /\ ~up_before[UploadTable].partitioned

\* the writes of the call: the deletion of the table, its making, and then
\* insertAll requests into it
DeletedMadeStreamed ==
    \A i \in DOMAIN Writes :
        /\ Writes[i].table = UploadTable
        /\ Writes[i].op = (IF i = 1 THEN "tables.delete"
                           ELSE IF i = 2 THEN "tables.insert" ELSE "tabledata.insertAll")

\* C32: an upload with if_exists='replace' to an existing table without
\* partitions issues the deletion of the table, then its creation with the
\* schema of the dataframe, and only then the streaming inserts; it never
\* raises InvalidSchema; and when it has returned the table holds exactly the
\* uploaded rows under the new schema.
C32_ReplaceRecreates ==
    ReplaceTableCase =>
        /\ DeletedMadeStreamed
        /\ up_outcome # <<"InvalidSchema">>
        /\ Len(Writes) >= 2 => MadeWithFrameSchema
        /\ HoldsUploadedRows
        /\ up_pc = "returned" => Len(Writes) >= 2 /\ UploadTable \in DOMAIN up_tables

\* a table that held a row under another schema was replaced by two rows
C32_Witness ==
    /\ ReplaceTableCase
    /\ up_pc = "returned"
    /\ up_before[UploadTable].rows = {0}
    /\ up_before[UploadTable].schema # up_args.schema
    /\ ~schema_is_subset(up_before[UploadTable].schema, up_args.schema)
    /\ up_tables[UploadTable].schema = up_args.schema
    /\ Held(up_tables[UploadTable]) = {1, 2}

(***************************************************************************)
(* Tabledata.insert_all (tabledata.py lines 22-67), one iteration of the   *)
(* loop over the rows of the dataframe per step.  A row of the dataframe   *)
(* is known by its position after reset_index(drop=True): 0, 1, 2, ...     *)
(* The remote answers an insertAll request with a response without         *)
(* insertErrors, with a response that reports insertErrors, or with an     *)
(* HttpError; in the last two cases it may have stored any part of the     *)
(* rows of the request.                                                    *)
(***************************************************************************)
\* The largest dataframe of an insert_all call.
MaxFrameRows == 11

\* The largest chunksize of an insert_all call.
MaxBatch == 3

\* uuid.uuid4().hex: strings of one length over the hexadecimal digits.
HexJobIds == {<<"a", "1">>, <<"1", "a">>, <<"1", "0">>}

InsertAllCalls == [rows : 0..MaxFrameRows, chunksize : 1..MaxBatch]

DecimalDigit(d) == <<"0", "1", "2", "3", "4", "5", "6", "7", "8", "9">>[d + 1]

\* str(index) of a non-negative int
RECURSIVE decimal(_)
decimal(n) == IF n < 10 THEN <<DecimalDigit(n)>>
              ELSE decimal(n \div 10) \o <<DecimalDigit(n % 10)>>

\* line 35: job_id + str(index)
insert_id(job_id, index) == job_id \o decimal(index)

\* lines 31-36: the row dict of the row at position index
row_dict(job_id, index) == [json |-> index, insertId |-> insert_id(job_id, index)]

batch_due_when_full(rows, chunksize, remaining_rows) == Len(rows) % chunksize = 0

\* line 39: (len(rows) % chunksize == 0) or (remaining_rows == 0)
batch_due(rows, chunksize, remaining_rows) ==
    (Len(rows) % chunksize = 0) \/ (remaining_rows = 0)

InitInsertAll ==
    /\ ia_pc = "loop"
    /\ ia_args \in InsertAllCalls
    /\ ia_job_id \in HexJobIds
    /\ ia_index = 0
    /\ ia_rows = <<>>
    /\ ia_remaining = ia_args.rows
    /\ ia_requests = <<>>
    /\ ia_stored = {}
    /\ ia_outcome = <<>>
    /\ IdleBesideInsert

\* lines 31-37: rows and remaining_rows once the next row has been appended
RowsAppended == Append(ia_rows, row_dict(ia_job_id, ia_index))

RemainingAfter == ia_remaining - 1

InLoop == ia_pc = "loop" /\ ia_index < ia_args.rows

BatchDue == batch_due(RowsAppended, ia_args.chunksize, RemainingAfter)

FrameRowsIn(rows) == {rows[i].json : i \in DOMAIN rows}

\* lines 44-50: body = {'rows': rows} goes out and the remote answers
InsertAllAnswered(response, kept) ==
    /\ ia_requests' = Append(ia_requests, [rows |-> RowsAppended, response |-> response])
    /\ ia_stored' = ia_stored \cup kept
    /\ ia_index' = ia_index + 1
    /\ ia_remaining' = RemainingAfter

\* lines 30-39: a row is appended and the condition of line 39 is false
RowBuffered ==
    /\ InLoop
    /\ ~BatchDue
    /\ ia_rows' = RowsAppended
    /\ ia_index' = ia_index + 1
    /\ ia_remaining' = RemainingAfter
    /\ UNCHANGED <<ia_pc, ia_args, ia_job_id, ia_requests, ia_stored, ia_outcome>>
    /\ UNCHANGED beside_insert

\* lines 39-65: the request is answered without insertErrors; rows = []
BatchAccepted ==
    /\ InLoop
    /\ BatchDue
    /\ InsertAllAnswered("ok", FrameRowsIn(RowsAppended))
    /\ ia_rows' = <<>>
    /\ UNCHANGED <<ia_pc, ia_args, ia_job_id, ia_outcome>>
    /\ UNCHANGED beside_insert

BatchInsertErrorsGoesOn ==
    /\ InLoop
    /\ BatchDue
    /\ \E kept \in SUBSET FrameRowsIn(RowsAppended) :
          /\ kept # FrameRowsIn(RowsAppended)
          /\ InsertAllAnswered("insertErrors", kept)
    /\ ia_rows' = <<>>
    /\ UNCHANGED <<ia_pc, ia_args, ia_job_id, ia_outcome>>
    /\ UNCHANGED beside_insert

\* lines 61-63: the response reports insertErrors, process_insert_errors raises
BatchInsertErrors ==
    /\ InLoop
    /\ BatchDue
    /\ \E kept \in SUBSET FrameRowsIn(RowsAppended) :
          /\ kept # FrameRowsIn(RowsAppended)
          /\ InsertAllAnswered("insertErrors", kept)
    /\ ia_rows' = RowsAppended
    /\ ia_pc' = "raised"
    /\ ia_outcome' = <<"StreamingInsertError">>
    /\ UNCHANGED <<ia_args, ia_job_id>>
    /\ UNCHANGED beside_insert

\* lines 44-51: the request raises HttpError, process_http_error raises
BatchHttpError ==
    /\ InLoop
    /\ BatchDue
    /\ \E kept \in SUBSET FrameRowsIn(RowsAppended) : InsertAllAnswered("HttpError", kept)
    /\ ia_rows' = RowsAppended
    /\ ia_pc' = "raised"
    /\ ia_outcome' = <<"GenericGBQException">>
    /\ UNCHANGED <<ia_args, ia_job_id>>
    /\ UNCHANGED beside_insert

\* line 67: the loop is over, insert_all returns
InsertAllReturns ==
    /\ ia_pc = "loop"
    /\ ia_index = ia_args.rows
    /\ ia_pc' = "returned"
    /\ ia_outcome' = <<"return">>
    /\ UNCHANGED <<ia_args, ia_job_id, ia_index, ia_rows, ia_remaining, ia_requests,
                   ia_stored>>
    /\ UNCHANGED beside_insert

NextInsertAll ==
    \/ RowBuffered
    \/ BatchAccepted
    \/ BatchInsertErrors
    \/ BatchHttpError
    \/ InsertAllReturns

SpecInsertAll == InitInsertAll /\ [][NextInsertAll]_vars

(***************************************************************************)
(* Claims about Tabledata.insert_all, checked under SpecInsertAll.         *)
(***************************************************************************)
InsertAllRunning == ia_pc # "idle"

Refused(request) == request.response # "ok"

InsertAllRaised == ia_pc = "raised"

\* The rows of the requests the remote answered without insertErrors.
AcceptedRows ==
    UNION {FrameRowsIn(ia_requests[i].rows) : i \in {j \in DOMAIN ia_requests : ~Refused(ia_requests[j])}}

\* Only the last request can have been refused, and then the call has raised
\* the exception of the failure.
RefusedBatchEndsCall ==
    \A i \in DOMAIN ia_requests :
        Refused(ia_requests[i]) =>
            /\ i = Len(ia_requests)
            /\ InsertAllRaised
            /\ ia_outcome = <<IF ia_requests[i].response = "insertErrors"
                              THEN "StreamingInsertError" ELSE "GenericGBQException">>

\* C33: insert_all is not all-or-nothing.  A batch whose response reports
\* insertErrors, or whose request fails, makes the call raise, and no request
\* follows it; the rows of the batches accepted before it are stored and stay
\* stored.
C33_NotAllOrNothing ==
    /\ [](InsertAllRunning => RefusedBatchEndsCall /\ AcceptedRows \subseteq ia_stored)
    /\ [][/\ ia_stored \subseteq ia_stored'
          /\ InsertAllRaised => ia_requests' = ia_requests]_vars

\* A call that raised at its third batch, with rows left unsent and the rows
\* of the first two batches stored.
C33_Witness ==
    /\ InsertAllRaised
    /\ ia_outcome = <<"StreamingInsertError">>
    /\ Len(ia_requests) = 3
    /\ ia_index < ia_args.rows
    /\ AcceptedRows # {}
    /\ AcceptedRows = ia_stored

RECURSIVE SentRows(_)
\* The row dicts of a list of requests, in the order sent.
SentRows(reqs) ==
    IF reqs = <<>> THEN <<>>
    ELSE SentRows(SubSeq(reqs, 1, Len(reqs) - 1)) \o reqs[Len(reqs)].rows

\* The row dicts made so far: sent, or gathered for the next request.
RowDictsMade == SentRows(ia_requests) \o (IF InsertAllRaised THEN <<>> ELSE ia_rows)

InsertIdsDistinct ==
    \A i, j \in DOMAIN RowDictsMade :
        RowDictsMade[i].insertId = RowDictsMade[j].insertId => i = j

BatchesOfChunksize ==
    \A i \in DOMAIN ia_requests :
        /\ Len(ia_requests[i].rows) \in 1..ia_args.chunksize
        /\ i < Len(ia_requests) => Len(ia_requests[i].rows) = ia_args.chunksize

EveryRowSentOnce ==
    /\ Len(SentRows(ia_requests)) = ia_args.rows
    /\ \A i \in 1..ia_args.rows : SentRows(ia_requests)[i].json = i - 1

\* C34: with chunksize at least 1, when insert_all returns every row of the
\* dataframe has been sent exactly once, in dataframe order; every request
\* holds chunksize rows except possibly the last one, which holds the rest;
\* the insertIds of one call are pairwise distinct; an empty dataframe issues
\* no request.
C34_BatchesCoverFrame ==
    InsertAllRunning =>
        /\ BatchesOfChunksize
        /\ InsertIdsDistinct
        /\ ia_pc = "returned" => EveryRowSentOnce
        /\ ia_args.rows = 0 => ia_requests = <<>>

\* A returned call over eleven rows whose last batch is shorter than chunksize.
C34_Witness ==
    /\ ia_pc = "returned"
    /\ ia_args.rows = 11
    /\ ia_args.chunksize = 3
    /\ Len(ia_requests) = 4
    /\ Len(ia_requests[4].rows) = 2

(***************************************************************************)
(* Further claims about pagination in Jobs.query, checked under SpecQuery  *)
(* and FairSpecQuery.                                                      *)
(***************************************************************************)
QueryReturned == job_pc = "returned" /\ served # <<>>

\* C35: whenever Jobs.query returns, the rows of the pages returned number
\* totalRows of the completing response (0 when it has none), whatever the
\* sizes of the pages the remote serves.
C35_ReturnsTotalRows == QueryReturned => RowsHeld(result_pages) = ReportedTotal

\* Every result-page request carries the token recorded right before it, and
\* no token is recorded twice.
PageTokensFresh ==
    /\ Len(PageRequests) = Len(seen_page_tokens)
    /\ \A i \in DOMAIN seen_page_tokens :
          /\ PageRequests[i].pageToken = seen_page_tokens[i]
          /\ \A j \in DOMAIN seen_page_tokens :
                seen_page_tokens[i] = seen_page_tokens[j] => i = j

PagingEnded ==
    \/ job_pc = "returned"
    \/ job_pc = "raised" /\ job_outcome[1] \in {"InvalidPageToken", "GenericGBQException"}

\* C36: with page tokens drawn from a finite set, every result-page request
\* follows the recording of a token not seen before in the call, the page
\* requests are at most as many as the tokens of the set, and pagination ends:
\* the call returns, or raises InvalidPageToken or GenericGBQException.
C36_PaginationTerminates ==
    /\ [](Paging => PageTokensFresh /\ Len(PageRequests) <= NumTokens)
    /\ ((job_pc = "page") ~> PagingEnded)

(***************************************************************************)
(* A further claim about Bigquery.query, checked under SpecClient.         *)
(***************************************************************************)
\* Bigquery.query has returned a dataframe made of the pages of Jobs.query.
QueryFrameReturned ==
    /\ cl_pc = "returned"
    /\ cl_args.klass # "Jobs"
    /\ cl_call.method = "jobs.query"
    /\ cl_outcome[1] = "return"

\* C37: the dataframe Bigquery.query returns holds the rows in the order the
\* remote served them, first page first and last page last, however many pages
\* there are.
C37_RowsInServedOrder ==
    QueryFrameReturned =>
        \A i, j \in DOMAIN cl_outcome[2] : i < j => cl_outcome[2][i] < cl_outcome[2][j]

(***************************************************************************)
(* Further claims about the replacement of a partition by Bigquery.upload, *)
(* checked under SpecUpload.                                               *)
(***************************************************************************)
TemporaryTable == temporary_table_id(UploadTable)

\* The call has made the temporary table, and the table is still there.
TemporaryTableLeft ==
    /\ TemporaryTable \notin DOMAIN up_before
    /\ TemporaryTable \in DOMAIN up_tables

\* C38: when an upload that replaces a partition has ended, by returning or by
\* raising, a temporary table that the call created exists no more.
C38_TemporaryTableGone == (PartitionCase /\ Ended) => ~TemporaryTableLeft

\* The replacement has been entered and the id made for the temporary table
\* names a table that was there when the call was made.
TemporaryNameTaken ==
    /\ PartitionCase
    /\ up_target = TemporaryTable
    /\ TemporaryTable \in DOMAIN up_before

\* Every table of the dataset is there as it was, with the rows it held.
TablesAsBefore ==
    /\ DOMAIN up_tables = DOMAIN up_before
    /\ \A id \in DOMAIN up_before :
          /\ Held(up_tables[id]) = Held(up_before[id])
          /\ up_tables[id].schema = up_before[id].schema

\* Rows are streamed into the temporary table only after the call has made it.
StagedIntoOwnTable ==
    \A i \in DOMAIN up_log :
        (up_log[i].op = "tabledata.insertAll" /\ up_log[i].table = TemporaryTable) =>
            /\ TemporaryTable \notin DOMAIN up_before
            /\ \E j \in 1..(i - 1) :
                  up_log[j].op = "tables.insert" /\ up_log[j].table = TemporaryTable

\* C39: in the replacement of a partition, rows are staged only in a table the
\* call itself has made; when the id made for the temporary table names a
\* table that is already there, the call raises TableCreationError with no
\* streaming insert, overwrite job or deletion issued, and the table that was
\* there and the partition are as they were.
C39_StagesInOwnTable ==
    /\ PartitionCase => StagedIntoOwnTable
    /\ TemporaryNameTaken =>
          /\ Writes = <<>>
          /\ TablesAsBefore
          /\ up_pc \in {"create", "raised"}
          /\ up_pc = "raised" => up_outcome = <<"TableCreationError">>

\* the temporary id named the stray table and the call was refused
C39_Witness ==
    /\ TemporaryNameTaken
    /\ up_before[TemporaryTable] = StrayTable
    /\ up_outcome = <<"TableCreationError">>
    /\ Held(up_tables[UploadRoot]) # {}

\* The call has posted the job of its row-count query.
CountJobPosted ==
    \E i \in DOMAIN up_log : up_log[i].op = "jobs.insert" /\ up_log[i].body = CountJob.body

\* C40: whether the partition holds rows is decided by a row-count query that
\* the same upload call runs against the remote, on a BigqueryJupyter instance
\* too, and never by the local result cache; so an upload with
\* if_exists='fail' to a partition that an earlier upload has filled raises
\* TableCreationError.
C40_CountFromRemote ==
    /\ [][(up_pc = "count" /\ up_pc' = "decide") =>
              /\ CountJobPosted'
              /\ up_partition_exists' = (up_tables[UploadRoot].rows # {})]_vars
    /\ [](FullPartitionCase /\ up_args.if_exists = "fail" /\ Ended /\ ~RequestFailed
            => up_outcome = <<"TableCreationError">>)

====
